---- MODULE Spec2Model ----
(***************************************************************************)
(* State-machine model of the YouTube monitoring add-on:                   *)
(*   main.py            : fetch_loop (polling thread), the HTTP handlers   *)
(*                        (one request at a time: HTTPServer is not        *)
(*                        threaded), on_video_change, the two locks.       *)
(*   history_store.py   : load_history / save_history / add_entry /        *)
(*                        has_video_id.                                    *)
(*   subscription_store : load / save of the store and                     *)
(*                        update_subscription_changes.                     *)
(*   fetcher.py         : the three fetch methods (their effect on the     *)
(*                        cached results, by kind of response), the        *)
(*                        watch-history collector and the recursive        *)
(*                        search _find_videos_in_dict.                     *)
(*                                                                         *)
(* Time is counted in ticks of 60 seconds.  The sub-tick pauses            *)
(* (time.sleep(2)) take no tick.  time.time() is an epoch value, so the    *)
(* clock starts at StartTime, which is larger than every interval the code *)
(* compares against a timestamp that starts at 0.                          *)
(***************************************************************************)
EXTENDS Integers, Sequences, FiniteSets, TLC

\* ---------------------------------------------------------------- bounds
\* Ticks the clock may advance during a run.
MaxElapsed == 3
\* Failed reads / writes of the history document that a run may contain.
MaxFaults == 1
\* Midnights (date changes) that a run may contain.
MaxDayAdv == 1
\* Ticks the clock may advance during a run of the whole program.
AllMaxElapsed == 2

\* ------------------------------------------------------ program constants
\* time.time() when the threads start (epoch seconds, in ticks).
StartTime == 10
\* opts["duplicate_minutes"] (a configuration value).
DuplicateMinutes == 1
\* opts["scan_interval"] = 60 s.
ScanInterval == 1
\* subscriptions_interval = 120 s.
SubscriptionsInterval == 2
\* opts["scan_interval_recommended"] (a configuration value), in ticks.
RecommendedInterval == 2
\* REFRESH_COOLDOWN_SEC = 600 s.
REFRESH_COOLDOWN_SEC == 10

\* duplicate_sec = opts.get("duplicate_minutes", 5) * 60, in ticks: the
\* horizon of the dedup window.
duplicate_sec == DuplicateMinutes

Threads == {"poll", "http"}
NoThread == "nobody"

\* ------------------------------------------------------------ video data
NA == "N/A"
\* A key that is absent from a dict (dict.get gives None / the default).
Missing == "<missing>"

\* The characters a regular expression's \d matches.
DigitChars == {"0", "1", "2", "3", "4", "5", "6", "7", "8", "9"}

\* URLs are kept as their sequence of path segments.
WatchUrl(id) == <<"https://www.youtube.com", "watch?v=", id>>
ShortsUrl(id) == <<"https://www.youtube.com", "shorts", id>>
\* "/shorts/" in url
HasShortsSegment(url) == \E i \in 1..Len(url) : url[i] = "shorts"

Get(d, key, default) == IF d[key] = Missing THEN default ELSE d[key]

\* not x  (for an id: None or the empty string)
Falsy(x) == x = Missing \/ x = ""

\* A short-form filter that does not look at the channel label.
_is_shorts_NoChannel(video_data) ==
    \/ video_data.duration = "Shorts"
    \/ HasShortsSegment(video_data.url)

\* main._is_shorts
_is_shorts(video_data) ==
    \/ video_data.duration = "Shorts"
    \/ video_data.channel = "YouTube Shorts"
    \/ HasShortsSegment(video_data.url)

\* f"https://img.youtube.com/vi/{video_id}/0.jpg"
Thumb(id) == <<"https://img.youtube.com/vi", id, "0.jpg">>

\* The records the extractors of fetcher.py build.
VideoRec(id) ==
    [video_id |-> id, title |-> "T", channel |-> "Ch", duration |-> "3:45",
     thumbnail |-> Thumb(id), url |-> WatchUrl(id)]
ShortsRec(id) ==
    [video_id |-> id, title |-> "YouTube Shorts", channel |-> "YouTube Shorts",
     duration |-> "Shorts", thumbnail |-> Thumb(id), url |-> ShortsUrl(id)]

\* The lists a history extraction pass may produce (fetch_history's
\* history_list = lockups + video_renderers + shorts_list): two videos, a
\* page that shows a short only, a video whose renderer has no videoId.
HistoryLists ==
    { <<VideoRec("a"), VideoRec("b")>>,
      <<ShortsRec("a")>>,
      <<VideoRec(NA)>> }

\* --------------------------------------------------------- history ledger
EmptyLedger == [d \in {} |-> <<>>]

\* Every entry of a ledger, as (date, index) positions.
Positions(history) ==
    UNION { { <<d, i>> : i \in 1..Len(history[d]) } : d \in DOMAIN history }

EntriesOf(history) == { history[p[1]][p[2]] : p \in Positions(history) }

\* A uniqueness check that looks at the bucket of the latest day only.
has_video_id_LatestDay(history, video_id) ==
    \E d \in DOMAIN history :
        /\ \A e \in DOMAIN history : e <= d
        /\ \E i \in 1..Len(history[d]) : history[d][i].video_id = video_id

\* history_store.has_video_id
has_video_id(history, video_id) ==
    \E d \in DOMAIN history :
        \E i \in 1..Len(history[d]) : history[d][i].video_id = video_id

\* An add_entry that puts the entry at the end of the day's list.
add_entry_Append(history, video_id, title, channel, thumbnail, url, duration, ts) ==
    LET date_str == ts.date
        entry == [video_id |-> video_id, title |-> title, channel |-> channel,
                  thumbnail |-> thumbnail, url |-> url, duration |-> duration,
                  timestamp |-> ts]
        old == IF date_str \in DOMAIN history THEN history[date_str] ELSE <<>>
    IN  [d \in DOMAIN history \cup {date_str} |->
            IF d = date_str THEN old \o <<entry>> ELSE history[d]]

\* history_store.add_entry: insert at the front of the day's list.
add_entry(history, video_id, title, channel, thumbnail, url, duration, ts) ==
    LET date_str == ts.date
        entry == [video_id |-> video_id, title |-> title, channel |-> channel,
                  thumbnail |-> thumbnail, url |-> url, duration |-> duration,
                  timestamp |-> ts]
        old == IF date_str \in DOMAIN history THEN history[date_str] ELSE <<>>
    IN  [d \in DOMAIN history \cup {date_str} |->
            IF d = date_str THEN <<entry>> \o old ELSE history[d]]

\* The persisted history document: a valid mapping, or an unparsable file.
ValidDoc(history) == [valid |-> TRUE, doc |-> history]
CorruptDoc == [valid |-> FALSE, doc |-> EmptyLedger]

\* history_store.load_history: anything but a readable mapping gives {}.
load_history(file, read_ok) ==
    IF read_ok /\ file.valid THEN file.doc ELSE EmptyLedger

\* A write that never reaches the file.
save_history_Lost(file, history, outcome) == file

\* history_store.save_history: the write succeeds, fails before the file is
\* opened (file unchanged), or fails after open(path, "w") truncated it.
WriteOutcomes == {"ok", "not_opened", "truncated"}
save_history(file, history, outcome) ==
    CASE outcome = "ok" -> ValidDoc(history)
      [] outcome = "not_opened" -> file
      [] OTHER -> CorruptDoc

\* ------------------------------------------------------ subscription store
\* {"last_snapshot": None, "monthly_changes": {}}; the JSON lists built by
\* list(set) carry no order of their own and are kept as sets.
NoSnapshot == [present |-> FALSE, date |-> 0, channels |-> {}]
EmptyStore == [last_snapshot |-> NoSnapshot, monthly_changes |-> [m \in {} |-> 0]]

\* The persisted subscription document: a valid mapping, or an unparsable
\* file.
ValidStore(store) == [valid |-> TRUE, doc |-> store]
CorruptStore == [valid |-> FALSE, doc |-> EmptyStore]

\* subscription_store.load_subscription_store: anything but a readable
\* mapping gives the empty store.
load_subscription_store(file, read_ok) ==
    IF read_ok /\ file.valid THEN file.doc ELSE EmptyStore

\* subscription_store.save_subscription_store: as save_history.
save_subscription_store(file, store, outcome) ==
    CASE outcome = "ok" -> ValidStore(store)
      [] outcome = "not_opened" -> file
      [] OTHER -> CorruptStore

\* date_str[:7] / strftime("%Y-%m"): day 0 is the last day of a month.
MonthOf(date) == IF date = 0 THEN "2024-05" ELSE "2024-06"

\* str.strip() on the channel names of the model.
strip(name) == IF name = " A " THEN "A" ELSE name

\* {c.get("channel_name", "").strip() for c in current_channels
\*    if c.get("channel_name")}
current_names_of(current_channels) ==
    { strip(current_channels[i].channel_name) : i \in
        { j \in 1..Len(current_channels) :
            current_channels[j].channel_name # "" } }

\* A diff that never reports a removed channel.
removed_names_None(current_names, prev_names) == {}

\* list(prev_names - current_names)
removed_names(current_names, prev_names) == prev_names \ current_names

\* A diff that reports every current channel as added.
added_names_All(current_names, prev_names) == current_names

\* list(current_names - prev_names)
added_names(current_names, prev_names) == current_names \ prev_names

\* list(existing_added | set(added)), list(existing_removed | set(removed))
union_into(existing, event) == existing \cup event

\* store["last_snapshot"] = {"date": ..., "channels": list(current_names)}
new_snapshot(last, current_names, date) ==
    [present |-> TRUE, date |-> date, channels |-> current_names]

\* subscription_store.update_subscription_changes between the load and the
\* save: the store it hands to save_subscription_store.
update_subscription_changes(store, current_channels, date) ==
    LET current_names == current_names_of(current_channels)
        last == store.last_snapshot
        monthly == store.monthly_changes
        prev_names == last.channels
        added == added_names(current_names, prev_names)
        removed == removed_names(current_names, prev_names)
        month == MonthOf(date)
        old == IF month \in DOMAIN monthly THEN monthly[month]
               ELSE [added |-> {}, removed |-> {}]
        monthly2 ==
            IF last.present /\ last.channels # {} /\ (added # {} \/ removed # {})
            THEN [m \in DOMAIN monthly \cup {month} |->
                    IF m = month
                    THEN [added |-> union_into(old.added, added),
                          removed |-> union_into(old.removed, removed)]
                    ELSE monthly[m]]
            ELSE monthly
    IN  [last_snapshot |-> new_snapshot(last, current_names, date),
         monthly_changes |-> monthly2]

\* ---------------------------------------------------------------- fetcher
MAX_HISTORY_ITEMS == 20
MAX_RECOMMENDED_ITEMS == 3

Take(s, n) == SubSeq(s, 1, IF Len(s) < n THEN Len(s) ELSE n)

\* The outcome of one call of a fetch method: no usable cookie file (the
\* method returns before any request is sent), or a request with the
\* response of the remote site: a transport error or timeout, HTTP 429, or
\* a page in which the embedded document is found (payload: what the
\* page's collector extracts from it) or not.
NoResp == [kind |-> "none", status |-> "none", found |-> FALSE, payload |-> <<>>]
Failure(kind, status) ==
    [kind |-> kind, status |-> status, found |-> FALSE, payload |-> <<>>]
Page(kind, payload) ==
    [kind |-> kind, status |-> "ok", found |-> TRUE, payload |-> payload]
Failures(kind) ==
    { Failure(kind, "no_session"), Failure(kind, "error"),
      Failure(kind, "429"), Failure(kind, "ok") }
Responses(kind, payloads) ==
    Failures(kind) \cup { Page(kind, p) : p \in payloads }
\* A request is on its way to the remote site.
RequestSent(r) == r.status \in {"error", "429", "ok"}

Rosters == { <<[channel_name |-> "A"], [channel_name |-> "B"]>>,
             <<[channel_name |-> "B"], [channel_name |-> "C"]>> }
RecommendedLists == { <<VideoRec("a")>> }

\* self.history_data after fetch_history got response r
fetch_history_result(old, r) ==
    IF r.status = "ok" /\ r.found THEN Take(r.payload, MAX_HISTORY_ITEMS)
    ELSE <<>>

\* self.subscriptions_data: None, or {total_count, channels}
NoneData == [isNone |-> TRUE, items |-> <<>>]
SomeData(items) == [isNone |-> FALSE, items |-> items]

fetch_subscriptions_result(old, r) ==
    CASE r.status = "429" -> old
      [] r.status \in {"error", "no_session"} -> NoneData
      [] r.status = "ok" /\ ~r.found -> SomeData(<<>>)
      [] OTHER -> SomeData(r.payload)

fetch_recommended_result(old, r) ==
    CASE r.status = "429" -> old
      [] r.status \in {"error", "no_session"} -> NoneData
      [] r.status = "ok" /\ ~r.found -> SomeData(<<>>)
      [] OTHER -> SomeData(Take(r.payload, MAX_RECOMMENDED_ITEMS))

\* ------------------------------------------------------------------ state
VARIABLES
    now,                \* time.time(), in ticks
    today,              \* the local date (index of the day)
    historyFile,        \* /data/yt_history.json
    subsFile,           \* /data/yt_subscriptions.json
    _history_lock,      \* the thread holding it, or NoThread
    _subs_lock,
    _last_seen_video_id,
    _recent_added,      \* video_id -> timestamp (the dedup window)
    _last_recommended_fetch,
    _last_manual_refresh_recommended,
    _last_subscriptions_fetch,
    history_data,       \* fetcher.history_data
    subscriptions_data, \* fetcher.subscriptions_data
    recommended_data,   \* fetcher.recommended_data
    pc,                 \* position of each thread
    inflight,           \* per thread: the request it has sent, with the
                        \* response the remote site will give
    ovc,                \* per thread: locals of on_video_change
    pollNow,            \* fetch_loop's local `now`; during time.sleep, the
                        \* time at which the sleep began
    pruneSrc,           \* the dict the prune comprehension iterates over
    httpNow,            \* the handler's local `now`
    httpVid,            \* the handler's local `video_id`
    httpResp,           \* the response the handler sends
    faults,             \* failed reads / writes of the two documents so far
    env                 \* the options and the surroundings of the run

vars == <<now, today, historyFile, subsFile, _history_lock, _subs_lock,
          _last_seen_video_id, _recent_added, _last_recommended_fetch,
          _last_manual_refresh_recommended, _last_subscriptions_fetch,
          history_data, subscriptions_data, recommended_data, pc, inflight,
          ovc, pollNow, pruneSrc, httpNow, httpVid, httpResp, faults, env>>

clockVars == <<now, today>>
fileVars == <<historyFile, subsFile>>
lockVars == <<_history_lock, _subs_lock>>
stampVars == <<_last_recommended_fetch, _last_manual_refresh_recommended,
               _last_subscriptions_fetch>>
cacheVars == <<history_data, subscriptions_data, recommended_data>>
httpLocals == <<httpNow, httpVid, httpResp>>
windowVars == <<_last_seen_video_id, _recent_added>>
pollLocals == <<pollNow, pruneSrc>>

NoVideo == VideoRec(Missing)
NoOvc == [video_data |-> NoVideo, history |-> EmptyLedger, ret |-> FALSE]
NoWindow == [k \in {} |-> 0]

\* _recent_added.get(video_id, 0)
\* A window that remembers nothing.
recent_get_Zero(recent, video_id) == 0

recent_get(recent, video_id) ==
    IF video_id \in DOMAIN recent THEN recent[video_id] ELSE 0

\* _recent_added[video_id] = t
recent_set(recent, video_id, t) ==
    [k \in DOMAIN recent \cup {video_id} |->
        IF k = video_id THEN t ELSE recent[k]]

\* {k: v for k, v in _recent_added.items() if now - v < duplicate_sec * 2}
prune(recent, t) ==
    [k \in { x \in DOMAIN recent : t - recent[x] < duplicate_sec * 2 } |->
        recent[k]]

\* The surroundings of a run: the option fetch_recommended, what the remote
\* site may answer to each kind of request, the request bodies clients
\* send, how many reads / writes of the history document may fail, how
\* long the run lasts, and whether a tick may fall inside a polling cycle's
\* fetches or only between cycles and requests.
Env(fetch_recommended, history, subscriptions, recommended, bodies, maxFaults, maxElapsed, ticksInFetch) ==
    [fetch_recommended |-> fetch_recommended, history |-> history,
     subscriptions |-> subscriptions, recommended |-> recommended,
     bodies |-> bodies, maxFaults |-> maxFaults, maxElapsed |-> maxElapsed,
     ticksInFetch |-> ticksInFetch]

\* State after main() has started the polling thread and the server, on a
\* fresh installation whose start-up fetches returned nothing.
InitIn(e) ==
    /\ env = e
    /\ now = StartTime
    /\ today = 0
    /\ historyFile = ValidDoc(EmptyLedger)
    /\ subsFile = ValidStore(EmptyStore)
    /\ _history_lock = NoThread
    /\ _subs_lock = NoThread
    /\ _last_seen_video_id = Missing
    /\ _recent_added = NoWindow
    /\ _last_recommended_fetch = IF e.fetch_recommended THEN StartTime ELSE 0
    /\ _last_manual_refresh_recommended = 0
    /\ _last_subscriptions_fetch = StartTime
    /\ history_data = <<>>
    /\ subscriptions_data = NoneData
    /\ recommended_data = NoneData
    /\ pc = [t \in Threads |-> IF t = "poll" THEN "loop_top" ELSE "idle"]
    /\ inflight = [t \in Threads |-> NoResp]
    /\ ovc = [t \in Threads |-> NoOvc]
    /\ pollNow = StartTime
    /\ pruneSrc = NoWindow
    /\ httpNow = 0
    /\ httpVid = Missing
    /\ httpResp = "none"
    /\ faults = 0

\* ------------------------------------------------------------------ clock
Poll == "poll"
Http == "http"

\* A thread that is sleeping or waiting for a request, or (when the run
\* lets ticks fall inside a fetch) waiting for the remote site.  The other
\* steps of a thread take no tick.
Waiting(t) ==
    \/ pc[t] \in {"loop_top", "sleep", "idle"}
    \/ env.ticksInFetch /\ pc[t] \in {"fetch_history", "fetch_subs", "fetch_rec"}

\* A tick of the clock; at a tick the local date may change.
Tick ==
    /\ now < StartTime + env.maxElapsed
    /\ \A t \in Threads : Waiting(t)
    /\ now' = now + 1
    /\ \/ today' = today
       \/ today < MaxDayAdv /\ today' = today + 1
    /\ UNCHANGED <<fileVars, lockVars, windowVars, stampVars, cacheVars, pc,
                   inflight, ovc, pollLocals, httpLocals, faults, env>>

\* -------------------------------------------------------- on_video_change
\* A lock that never blocks.
CanAcquire_Always(lock, t) == TRUE

\* threading.Lock: acquire succeeds only when nobody holds the lock.
CanAcquire(lock, t) == lock = NoThread

\* `with _history_lock:` and `history = load_history()` (main.py 163-164)
OvcLock(t) ==
    /\ pc[t] = "ovc_lock"
    /\ CanAcquire(_history_lock, t)
    /\ _history_lock' = t
    /\ \E read_ok \in BOOLEAN :
          /\ read_ok \/ faults < env.maxFaults
          /\ faults' = IF read_ok THEN faults ELSE faults + 1
          /\ ovc' = [ovc EXCEPT ![t].history = load_history(historyFile, read_ok)]
    /\ pc' = [pc EXCEPT ![t] = "ovc_cs"]
    /\ UNCHANGED <<clockVars, fileVars, _subs_lock, windowVars, stampVars,
                   cacheVars, inflight, pollLocals, httpLocals, env>>

\* The id checks, add_entry, save_history and the end of the `with` block
\* (main.py 165-184).
OvcSave(t) ==
    LET video_data == ovc[t].video_data
        history == ovc[t].history
        vid == video_data.video_id
        rejected == Falsy(vid) \/ vid = NA \/ has_video_id(history, vid)
        history2 == add_entry(history, vid, video_data.title,
                              video_data.channel, video_data.thumbnail,
                              video_data.url, video_data.duration,
                              [date |-> today, time |-> now])
    IN  /\ pc[t] = "ovc_cs"
        /\ IF rejected
           THEN /\ ovc' = [ovc EXCEPT ![t].ret = FALSE, ![t].history = EmptyLedger]
                /\ UNCHANGED <<historyFile, faults>>
           ELSE \E outcome \in WriteOutcomes :
                  /\ outcome = "ok" \/ faults < env.maxFaults
                  /\ faults' = IF outcome = "ok" THEN faults ELSE faults + 1
                  /\ historyFile' = save_history(historyFile, history2, outcome)
                  /\ ovc' = [ovc EXCEPT ![t].ret = TRUE, ![t].history = EmptyLedger]
        /\ _history_lock' = NoThread
        /\ pc' = [pc EXCEPT ![t] = "ovc_ret"]
        /\ UNCHANGED <<clockVars, subsFile, _subs_lock, windowVars, stampVars,
                       cacheVars, inflight, pollLocals, httpLocals, env>>

\* ----------------------------------------------------------- fetch_loop
\* A step of the polling thread runs up to the next point where the thread
\* waits: for the remote site, for a lock, or in time.sleep(interval).

\* main.py 219-221: the option, the interval gate and fetch_recommended()
\* up to the request; without a fetch the cycle goes on at line 224.
RecGate ==
    IF env.fetch_recommended
       /\ pollNow - _last_recommended_fetch >= RecommendedInterval
    THEN /\ \E r \in env.recommended : inflight' = [inflight EXCEPT ![Poll] = r]
         /\ pc' = [pc EXCEPT ![Poll] = "fetch_rec"]
    ELSE /\ inflight' = [inflight EXCEPT ![Poll] = NoResp]
         /\ pc' = [pc EXCEPT ![Poll] = "process"]

\* The gate opens only after more than the interval.
SubsGate_Late ==
    IF pollNow - _last_subscriptions_fetch > SubscriptionsInterval
    THEN /\ \E r \in env.subscriptions : inflight' = [inflight EXCEPT ![Poll] = r]
         /\ pc' = [pc EXCEPT ![Poll] = "fetch_subs"]
    ELSE RecGate

\* main.py 210-211: the interval gate and fetch_subscriptions() up to the
\* request.
SubsGate ==
    IF pollNow - _last_subscriptions_fetch >= SubscriptionsInterval
    THEN /\ \E r \in env.subscriptions : inflight' = [inflight EXCEPT ![Poll] = r]
         /\ pc' = [pc EXCEPT ![Poll] = "fetch_subs"]
    ELSE RecGate

\* main.py 206-207: now = time.time(), fetcher.fetch_history() up to the
\* request.  A new cycle starts when time.sleep(interval) has elapsed.
PollFetchHistoryBegin ==
    /\ \/ pc[Poll] = "loop_top"
       \/ pc[Poll] = "sleep" /\ now - pollNow >= ScanInterval
    /\ pollNow' = now
    /\ \E r \in env.history : inflight' = [inflight EXCEPT ![Poll] = r]
    /\ pc' = [pc EXCEPT ![Poll] = "fetch_history"]
    /\ UNCHANGED <<clockVars, fileVars, lockVars, windowVars, stampVars,
                   cacheVars, ovc, pruneSrc, httpLocals, faults, env>>

\* fetcher.py 281-378, the rest of fetch_history(), then main.py 208-211.
PollFetchHistoryEnd ==
    /\ pc[Poll] = "fetch_history"
    /\ history_data' = fetch_history_result(history_data, inflight[Poll])
    /\ SubsGate
    /\ UNCHANGED <<clockVars, fileVars, lockVars, windowVars, stampVars,
                   subscriptions_data, recommended_data, ovc, pollLocals,
                   httpLocals, faults, env>>

\* fetcher.py 385-524, the rest of fetch_subscriptions(), and main.py
\* 212-215.
PollFetchSubsEnd ==
    LET sub_data == fetch_subscriptions_result(subscriptions_data, inflight[Poll])
    IN  /\ pc[Poll] = "fetch_subs"
        /\ subscriptions_data' = sub_data
        /\ _last_subscriptions_fetch' = now
        /\ IF ~sub_data.isNone /\ sub_data.items # <<>>
           THEN /\ inflight' = [inflight EXCEPT ![Poll] = NoResp]
                /\ pc' = [pc EXCEPT ![Poll] = "subs_lock"]
           ELSE RecGate
        /\ UNCHANGED <<clockVars, fileVars, lockVars, windowVars,
                       _last_recommended_fetch,
                       _last_manual_refresh_recommended, history_data,
                       recommended_data, ovc, pollLocals, httpLocals, faults,
                       env>>

\* main.py 215: with _subs_lock
PollSubsLock ==
    /\ pc[Poll] = "subs_lock"
    /\ CanAcquire(_subs_lock, Poll)
    /\ _subs_lock' = Poll
    /\ pc' = [pc EXCEPT ![Poll] = "subs_cs"]
    /\ UNCHANGED <<clockVars, fileVars, _history_lock, windowVars, stampVars,
                   cacheVars, inflight, ovc, pollLocals, httpLocals, faults,
                   env>>

\* main.py 216-221: update_subscription_changes(sub_data["channels"]), the
\* end of the `with` block, and the cycle up to its next wait.
PollSubsUpdate ==
    /\ pc[Poll] = "subs_cs"
    /\ \E read_ok \in BOOLEAN, outcome \in WriteOutcomes :
          LET failed == (IF read_ok THEN 0 ELSE 1) + (IF outcome = "ok" THEN 0 ELSE 1)
              store == load_subscription_store(subsFile, read_ok)
              store2 == update_subscription_changes(store, subscriptions_data.items, today)
          IN  /\ faults + failed <= env.maxFaults
              /\ faults' = faults + failed
              /\ subsFile' = save_subscription_store(subsFile, store2, outcome)
    /\ _subs_lock' = NoThread
    /\ RecGate
    /\ UNCHANGED <<clockVars, historyFile, _history_lock, windowVars,
                   stampVars, cacheVars, ovc, pollLocals, httpLocals, env>>

\* fetcher.py 531-567, the rest of fetch_recommended(), and main.py 222.
PollFetchRecEnd ==
    /\ pc[Poll] = "fetch_rec"
    /\ recommended_data' =
          fetch_recommended_result(recommended_data, inflight[Poll])
    /\ inflight' = [inflight EXCEPT ![Poll] = NoResp]
    /\ _last_recommended_fetch' = pollNow
    /\ pc' = [pc EXCEPT ![Poll] = "process"]
    /\ UNCHANGED <<clockVars, fileVars, lockVars, windowVars,
                   _last_subscriptions_fetch,
                   _last_manual_refresh_recommended, history_data,
                   subscriptions_data, ovc, pollLocals, httpLocals, faults,
                   env>>

\* The last record of the list instead of the first.
most_recent_Last(videos) == videos[Len(videos)]

\* most_recent = videos[0]
most_recent(videos) == videos[1]

\* main.py 237, first half: the comprehension reads the dict.
StartPrune ==
    /\ pruneSrc' = _recent_added'
    /\ pc' = [pc EXCEPT ![Poll] = "prune_store"]

\* main.py 224-234 (and 161-162 of on_video_change, 236-237 when the
\* candidate is not handed to the ledger).
PollProcess ==
    LET videos == history_data
        video_id == most_recent(videos).video_id
    IN  /\ pc[Poll] = "process"
        /\ IF videos = <<>> \/ Falsy(video_id) \/ video_id = NA
           THEN /\ pc' = [pc EXCEPT ![Poll] = "sleep"]
                /\ UNCHANGED <<windowVars, ovc, pruneSrc>>
           ELSE IF video_id = _last_seen_video_id
           THEN /\ UNCHANGED <<windowVars, ovc>>
                /\ StartPrune
           ELSE IF now - recent_get(_recent_added, video_id) >= duplicate_sec
                   /\ ~_is_shorts(most_recent(videos))
           THEN /\ ovc' = [ovc EXCEPT ![Poll].video_data = most_recent(videos)]
                /\ pc' = [pc EXCEPT ![Poll] = "ovc_lock"]
                /\ UNCHANGED <<windowVars, pruneSrc>>
           ELSE /\ _last_seen_video_id' = video_id
                /\ UNCHANGED <<_recent_added, ovc>>
                /\ StartPrune
        /\ pollNow' = now
        /\ UNCHANGED <<clockVars, fileVars, lockVars, stampVars, cacheVars,
                       inflight, httpLocals, faults, env>>

\* main.py 234-237 after on_video_change(most_recent) returned.
PollAfterOvc ==
    LET video_id == ovc[Poll].video_data.video_id
    IN  /\ pc[Poll] = "ovc_ret"
        /\ _recent_added' = IF ovc[Poll].ret
                            THEN recent_set(_recent_added, video_id, pollNow)
                            ELSE _recent_added
        /\ _last_seen_video_id' = video_id
        /\ ovc' = [ovc EXCEPT ![Poll] = NoOvc]
        /\ StartPrune
        /\ UNCHANGED <<clockVars, fileVars, lockVars, stampVars, cacheVars,
                       inflight, pollNow, httpLocals, faults, env>>

\* main.py 243-244: `except Exception as err` at the boundary of the loop
\* catches whatever the cycle raised.
AfterException_Exit == "exit"

AfterException == "except"

\* main.py 237, second half: the new dict is bound to the global.  When the
\* dict changed size while it was iterated, the comprehension may instead
\* raise RuntimeError.  Then time.sleep(interval).
PollPruneStore ==
    /\ pc[Poll] = "prune_store"
    /\ \/ /\ _recent_added' = prune(pruneSrc, pollNow)
          /\ pc' = [pc EXCEPT ![Poll] = "sleep"]
       \/ /\ DOMAIN _recent_added # DOMAIN pruneSrc
          /\ UNCHANGED _recent_added
          /\ pc' = [pc EXCEPT ![Poll] = AfterException]
    /\ pruneSrc' = NoWindow
    /\ pollNow' = now
    /\ UNCHANGED <<clockVars, fileVars, lockVars, _last_seen_video_id,
                   stampVars, cacheVars, inflight, ovc, httpLocals, faults,
                   env>>

\* main.py 243-245: the except clause logs the error, and the loop goes on
\* with time.sleep(interval).
PollExcept ==
    /\ pc[Poll] = "except"
    /\ pc' = [pc EXCEPT ![Poll] = "sleep"]
    /\ pollNow' = now
    /\ UNCHANGED <<clockVars, fileVars, lockVars, windowVars, stampVars,
                   cacheVars, inflight, ovc, pruneSrc, httpLocals, faults,
                   env>>

\* ------------------------------------------------------- the HTTP handler
\* Bodies of POST /api/ingest: unparsable, a JSON value that is not an
\* object (null, a list, a number), or a JSON object.
NoUrl == <<Missing>>
Body(video_id, videoId, url, duration, channel) ==
    [parsable |-> TRUE, is_dict |-> TRUE, video_id |-> video_id, videoId |-> videoId,
     title |-> Missing, channel |-> channel, thumbnail |-> Missing,
     url |-> url, duration |-> duration]
BadBody ==
    [Body(Missing, Missing, NoUrl, Missing, Missing) EXCEPT !.parsable = FALSE]
NonObjectBody ==
    [Body(Missing, Missing, NoUrl, Missing, Missing) EXCEPT !.is_dict = FALSE]
PlainBody(id) == Body(id, Missing, NoUrl, Missing, Missing)
IngestBodies ==
    { BadBody,
      NonObjectBody,
      PlainBody(Missing),
      PlainBody(NA),
      PlainBody("a"),
      PlainBody("b"),
      Body(Missing, "b", NoUrl, Missing, Missing),
      Body("a", Missing, ShortsUrl("a"), Missing, Missing),
      Body("a", Missing, NoUrl, "Shorts", Missing),
      Body("a", Missing, NoUrl, Missing, "YouTube Shorts") }

\* data.get(...) on a value that is no dict raises AttributeError (main.py
\* 301); nothing in the handler catches it, the server drops the connection
\* and the client gets no status line.
NoAnswer == "no response"

\* send_json(...): the handler has answered.
Respond(r) ==
    /\ httpResp' = r
    /\ httpNow' = 0
    /\ pc' = [pc EXCEPT ![Http] = "respond"]

\* data.get("video_id") or data.get("videoId")
BodyVideoId(data) ==
    IF Falsy(data.video_id) THEN data.videoId ELSE data.video_id

\* main.py 314-325: the dict handed to on_video_change.
BodyVideoData(data) ==
    LET video_id == BodyVideoId(data)
    IN  [video_id |-> video_id,
         title |-> Get(data, "title", NA),
         channel |-> Get(data, "channel", NA),
         thumbnail |-> IF Falsy(data.thumbnail) THEN Thumb(video_id)
                       ELSE <<data.thumbnail>>,
         url |-> IF data.url = NoUrl THEN WatchUrl(video_id) ELSE data.url,
         duration |-> Get(data, "duration", NA)]

\* main.py 290-326 (and 161-162 of on_video_change).
IngestStart(data) ==
    LET video_id == BodyVideoId(data)
        video_data == BodyVideoData(data)
    IN  /\ pc[Http] = "idle"
        /\ IF ~data.parsable
           THEN Respond("400 Invalid JSON") /\ UNCHANGED <<ovc, httpVid>>
           ELSE IF ~data.is_dict
           THEN Respond(NoAnswer) /\ UNCHANGED <<ovc, httpVid>>
           ELSE IF Falsy(video_id) \/ video_id = NA
           THEN Respond("400 video_id required") /\ UNCHANGED <<ovc, httpVid>>
           ELSE /\ httpVid' = video_id
                /\ IF now - recent_get(_recent_added, video_id) < duplicate_sec
                   THEN Respond("skipped duplicate") /\ UNCHANGED ovc
                   ELSE IF HasShortsSegment(video_data.url) \/ data.duration = "Shorts"
                   THEN Respond("skipped shorts") /\ UNCHANGED ovc
                   ELSE IF _is_shorts(video_data)
                   THEN Respond("skipped duplicate") /\ UNCHANGED ovc
                   ELSE /\ ovc' = [ovc EXCEPT ![Http].video_data = video_data]
                        /\ httpNow' = now
                        /\ pc' = [pc EXCEPT ![Http] = "ovc_lock"]
                        /\ UNCHANGED httpResp
        /\ UNCHANGED <<clockVars, fileVars, lockVars, windowVars, stampVars,
                       cacheVars, inflight, pollLocals, faults, env>>

\* main.py 326-332 after on_video_change(video_data) returned.
IngestFinish ==
    /\ pc[Http] = "ovc_ret"
    /\ IF ovc[Http].ret
       THEN /\ _last_seen_video_id' = httpVid
            /\ _recent_added' = recent_set(_recent_added, httpVid, httpNow)
            /\ Respond("ok")
       ELSE /\ Respond("skipped duplicate")
            /\ UNCHANGED windowVars
    /\ ovc' = [ovc EXCEPT ![Http] = NoOvc]
    /\ UNCHANGED <<clockVars, fileVars, lockVars, stampVars, cacheVars,
                   inflight, pollLocals, httpVid, faults, env>>

\* The response is sent and the server takes the next request.
HttpDone ==
    /\ pc[Http] = "respond"
    /\ pc' = [pc EXCEPT ![Http] = "idle"]
    /\ httpResp' = "none"
    /\ httpVid' = Missing
    /\ UNCHANGED <<clockVars, fileVars, lockVars, windowVars, stampVars,
                   cacheVars, inflight, ovc, pollLocals, httpNow, faults, env>>

in_cooldown_Never(elapsed) == FALSE

\* main.py 339: elapsed < REFRESH_COOLDOWN_SEC
in_cooldown(elapsed) == elapsed < REFRESH_COOLDOWN_SEC

\* main.py 334-350: the cooldown check and fetcher.fetch_recommended() up to
\* the request (fetcher is set before the server starts).
RefreshStart ==
    /\ pc[Http] = "idle"
    /\ IF in_cooldown(now - _last_manual_refresh_recommended)
       THEN /\ Respond("429 cooldown")
            /\ UNCHANGED inflight
       ELSE /\ httpNow' = now
            /\ \E r \in env.recommended : inflight' = [inflight EXCEPT ![Http] = r]
            /\ pc' = [pc EXCEPT ![Http] = "fetch_rec"]
            /\ UNCHANGED httpResp
    /\ UNCHANGED <<clockVars, fileVars, lockVars, windowVars, stampVars,
                   cacheVars, ovc, pollLocals, httpVid, faults, env>>

\* fetcher.py 531-567, the rest of fetch_recommended(), and main.py 351-356.
RefreshEnd ==
    /\ pc[Http] = "fetch_rec"
    /\ recommended_data' =
          fetch_recommended_result(recommended_data, inflight[Http])
    /\ inflight' = [inflight EXCEPT ![Http] = NoResp]
    /\ _last_manual_refresh_recommended' = httpNow
    /\ Respond("ok refreshed")
    /\ UNCHANGED <<clockVars, fileVars, lockVars, windowVars,
                   _last_recommended_fetch, _last_subscriptions_fetch,
                   history_data, subscriptions_data, ovc, pollLocals, httpVid,
                   faults, env>>

\* main.py 386-387: GET /api/history reads the ledger under the lock.
ServeHistoryLock ==
    /\ pc[Http] = "idle"
    /\ CanAcquire(_history_lock, Http)
    /\ _history_lock' = Http
    /\ pc' = [pc EXCEPT ![Http] = "serve_history_cs"]
    /\ UNCHANGED <<clockVars, fileVars, _subs_lock, windowVars, stampVars,
                   cacheVars, inflight, ovc, pollLocals, httpLocals, faults,
                   env>>

\* main.py 387-396: the end of the `with` block.
ServeHistoryUnlock ==
    /\ pc[Http] = "serve_history_cs"
    /\ _history_lock' = NoThread
    /\ pc' = [pc EXCEPT ![Http] = "serve_subs_lock"]
    /\ UNCHANGED <<clockVars, fileVars, _subs_lock, windowVars, stampVars,
                   cacheVars, inflight, ovc, pollLocals, httpLocals, faults,
                   env>>

\* main.py 397-398: with _subs_lock: get_monthly_subscription_changes()
ServeSubsLock ==
    /\ pc[Http] = "serve_subs_lock"
    /\ CanAcquire(_subs_lock, Http)
    /\ _subs_lock' = Http
    /\ pc' = [pc EXCEPT ![Http] = "serve_subs_cs"]
    /\ UNCHANGED <<clockVars, fileVars, _history_lock, windowVars, stampVars,
                   cacheVars, inflight, ovc, pollLocals, httpLocals, faults,
                   env>>

\* main.py 398-417: the end of the `with` block and the response.
ServeSubsUnlock ==
    /\ pc[Http] = "serve_subs_cs"
    /\ _subs_lock' = NoThread
    /\ Respond("history page")
    /\ UNCHANGED <<clockVars, fileVars, _history_lock, windowVars, stampVars,
                   cacheVars, inflight, ovc, pollLocals, httpVid, faults, env>>

\* main.py 421-422: GET /api/stats reads the ledger under the lock.
ServeStatsLock ==
    /\ pc[Http] = "idle"
    /\ CanAcquire(_history_lock, Http)
    /\ _history_lock' = Http
    /\ pc' = [pc EXCEPT ![Http] = "serve_stats_cs"]
    /\ UNCHANGED <<clockVars, fileVars, _subs_lock, windowVars, stampVars,
                   cacheVars, inflight, ovc, pollLocals, httpLocals, faults,
                   env>>

\* main.py 422-429: the end of the `with` block and the response.
ServeStatsUnlock ==
    /\ pc[Http] = "serve_stats_cs"
    /\ _history_lock' = NoThread
    /\ Respond("stats")
    /\ UNCHANGED <<clockVars, fileVars, _subs_lock, windowVars, stampVars,
                   cacheVars, inflight, ovc, pollLocals, httpVid, faults, env>>

\* ---------------------------------------------------------- specifications
\* The ingestion pipeline: the polling thread and POST /api/ingest, with
\* failing reads and writes of the history document.  The channels page
\* answers with transport errors and the fetch_recommended option is off,
\* so that the rest of the cycle leaves the pipeline's state alone.
PipelineEnv ==
    Env(FALSE,
        { Failure("history", "error") }
            \cup { Page("history", p) : p \in HistoryLists },
        { Failure("subscriptions", "error") }, {},
        IngestBodies, MaxFaults, MaxElapsed, FALSE)

Init == InitIn(PipelineEnv)

Next ==
    \/ Tick
    \/ PollFetchHistoryBegin
    \/ PollFetchHistoryEnd
    \/ PollFetchSubsEnd
    \/ PollProcess
    \/ PollAfterOvc
    \/ PollPruneStore
    \/ PollExcept
    \/ \E t \in Threads : OvcLock(t)
    \/ \E t \in Threads : OvcSave(t)
    \/ \E data \in env.bodies : IngestStart(data)
    \/ IngestFinish
    \/ HttpDone

Spec == Init /\ [][Next]_vars

\* The whole program: every step of the polling cycle with the
\* fetch_recommended option on, every answer of the remote site to every
\* kind of request, and every route of the server.  Ticks fall inside the
\* fetches as well.  The history document is read and written without
\* failures, and one video is watched.
AllEnv ==
    Env(TRUE,
        Responses("history", { <<VideoRec("a")>> }),
        Responses("subscriptions", Rosters),
        Responses("recommended", RecommendedLists),
        { PlainBody("a") }, 0, AllMaxElapsed, TRUE)

InitAll == InitIn(AllEnv)

NextAll ==
    \/ Tick
    \/ PollFetchHistoryBegin
    \/ PollFetchHistoryEnd
    \/ PollFetchSubsEnd
    \/ PollSubsLock
    \/ PollSubsUpdate
    \/ PollFetchRecEnd
    \/ PollProcess
    \/ PollAfterOvc
    \/ PollPruneStore
    \/ PollExcept
    \/ \E t \in Threads : OvcLock(t)
    \/ \E t \in Threads : OvcSave(t)
    \/ \E data \in env.bodies : IngestStart(data)
    \/ IngestFinish
    \/ RefreshStart
    \/ RefreshEnd
    \/ ServeHistoryLock
    \/ ServeHistoryUnlock
    \/ ServeSubsLock
    \/ ServeSubsUnlock
    \/ ServeStatsLock
    \/ ServeStatsUnlock
    \/ HttpDone

SpecAll == InitAll /\ [][NextAll]_vars

\* =============================================================== properties
OvcPcs == {"ovc_lock", "ovc_cs", "ovc_ret"}

\* The entries of the persisted ledger whose video_id is vid.
PersistedWith(vid) ==
    { p \in Positions(historyFile.doc) :
        historyFile.doc[p[1]][p[2]].video_id = vid }

\* C1: in every reachable state of the persisted ledger no video_id appears
\* in more than one entry, across all date buckets taken together.
C1_GlobalUniqueness ==
    \A p, q \in Positions(historyFile.doc) :
        historyFile.doc[p[1]][p[2]].video_id = historyFile.doc[q[1]][q[2]].video_id
            => p = q

\* on_video_change has just rejected an id that the ledger holds in the
\* bucket of an earlier day, while today's bucket holds other entries.
C1_Witness ==
    \E t \in Threads :
        /\ pc[t] = "ovc_ret"
        /\ ~ovc[t].ret
        /\ today \in DOMAIN historyFile.doc
        /\ \E p \in PersistedWith(ovc[t].video_data.video_id) : p[1] < today

\* C2: when the same video_id is submitted twice, the ledger afterwards
\* holds exactly one entry with that id.  Stated at the moment the push
\* handler answers "skipped, duplicate" to an id that the window records as
\* accepted before: the ledger then holds exactly one entry with the id.
C2_TwiceSubmittedOncePersisted ==
    ( /\ pc[Http] = "respond"
      /\ httpResp = "skipped duplicate"
      /\ httpVid \in DOMAIN _recent_added )
        => Cardinality(PersistedWith(httpVid)) = 1

\* C3: every entry persisted to the ledger has a present id different from
\* "N/A", and carries no short-form marker: its duration is not "Shorts",
\* its channel is not "YouTube Shorts", its URL has no "/shorts/" segment.
C3_NoSentinelNoShorts ==
    \A e \in EntriesOf(historyFile.doc) :
        /\ ~Falsy(e.video_id)
        /\ e.video_id # NA
        /\ e.duration # "Shorts"
        /\ e.channel # "YouTube Shorts"
        /\ ~HasShortsSegment(e.url)

\* A push whose only short-form marker is the channel label has been
\* turned away by on_video_change's own filter, after the handler's URL
\* and duration checks let it through, while the ledger holds entries.
C3_Witness ==
    /\ pc[Http] = "respond"
    /\ httpResp = "skipped duplicate"
    /\ httpVid \notin DOMAIN _recent_added
    /\ PersistedWith(httpVid) = {}
    /\ EntriesOf(historyFile.doc) # {}

\* C4: the persisted ledger only grows, also when a read of the persisted
\* document fails: every entry present in a parsable document after one
\* operation is still present, with the same fields, after the next one
\* that leaves a parsable document.
C4_LedgerOnlyGrows ==
    [][ historyFile'.valid =>
            EntriesOf(historyFile.doc) \subseteq EntriesOf(historyFile'.doc) ]_vars

\* A record of the extracted list passes the three checks of the pipeline:
\* the short-form filter, the DedupWindow check and the uniqueness check
\* against the persisted ledger.
SurvivesChecks(r) ==
    /\ ~_is_shorts(r)
    /\ now - recent_get(_recent_added, r.video_id) >= duplicate_sec
    /\ PersistedWith(r.video_id) = {}

\* C5 as the spec states it: when a polling cycle has handled the extracted
\* list, every record of the list with a resolved id that survives the
\* three checks has become a ledger entry, so that none is left surviving.
C5_EverySurvivorPersisted ==
    pc[Poll] = "sleep" =>
        \A i \in 1..Len(history_data) :
            history_data[i].video_id # NA => ~SurvivesChecks(history_data[i])

\* C5 as the code has it: a polling cycle hands to on_video_change only
\* the first record of the extracted list, and only when its id is
\* resolved, differs from the last seen id and passes the window check and
\* the short-form filter; whatever a step of the polling thread adds to
\* the persisted ledger is an entry made of that first record, and such an
\* entry is in the document whenever the ledger that was read lacks the id
\* and the write replaces the document.
C5_OnlyFirstRecordSubmitted ==
    [][ /\ pc'[Poll] \in OvcPcs =>
            /\ history_data' # <<>>
            /\ ovc'[Poll].video_data = history_data'[1]
            /\ ~Falsy(history_data'[1].video_id)
            /\ history_data'[1].video_id # NA
            /\ ~_is_shorts(history_data'[1])
        /\ (pc[Poll] = "process" /\ pc'[Poll] = "ovc_lock") =>
            /\ history_data[1].video_id # _last_seen_video_id
            /\ now - recent_get(_recent_added, history_data[1].video_id)
                  >= duplicate_sec
        /\ (pc[Poll] = "ovc_cs" /\ pc'[Poll] = "ovc_ret") =>
            /\ \A e \in EntriesOf(historyFile'.doc) \ EntriesOf(historyFile.doc) :
                  /\ e.video_id = history_data[1].video_id
                  /\ e.title = history_data[1].title
                  /\ e.url = history_data[1].url
            /\ ( /\ \A e \in EntriesOf(ovc[Poll].history) :
                        e.video_id # history_data[1].video_id
                 /\ ovc'[Poll].ret
                 /\ historyFile' # historyFile
                 /\ historyFile'.valid )
                    => \E e \in EntriesOf(historyFile'.doc) :
                          e.video_id = history_data[1].video_id
      ]_vars

\* The polling cycle has persisted the first record of a list whose second
\* record has a resolved id and survives the three checks, and is dropped.
C5_Witness ==
    /\ pc[Poll] = "ovc_ret"
    /\ ovc[Poll].ret
    /\ PersistedWith(history_data[1].video_id) # {}
    /\ Len(history_data) >= 2
    /\ history_data[2].video_id # NA
    /\ SurvivesChecks(history_data[2])

\* The ledger entry of vid was written at least 3 horizons ago.
AcceptedLongAgo(vid) ==
    \E p \in PersistedWith(vid) :
        now - historyFile.doc[p[1]][p[2]].timestamp.time >= 3 * duplicate_sec

\* C6 as the spec states it, second half: an id accepted at time T is
\* accepted again when it is resubmitted at T + 3*horizon.
C6_AcceptedAgainAfterThreeHorizons ==
    \A t \in Threads :
        ( /\ pc[t] = "ovc_ret"
          /\ AcceptedLongAgo(ovc[t].video_data.video_id) )
            => ovc[t].ret

\* C6 as the code has it: a push of an id whose window entry is younger
\* than the horizon is turned away before it reaches the ledger, and a
\* submission of an id that the ledger document read by on_video_change
\* holds is rejected with the document left as it is, however long ago the
\* id was accepted: the expiry of its window entry does not readmit it.
C6_RejectedWhileInLedger ==
    [][ /\ (pc[Http] = "idle" /\ pc'[Http] = "ovc_lock") =>
            ( httpVid' \in DOMAIN _recent_added =>
                now - _recent_added[httpVid'] >= duplicate_sec )
        /\ \A t \in Threads :
            ( /\ pc[t] = "ovc_cs"
              /\ pc'[t] = "ovc_ret"
              /\ \E e \in EntriesOf(ovc[t].history) :
                    e.video_id = ovc[t].video_data.video_id )
                => (~ovc'[t].ret /\ historyFile' = historyFile)
      ]_vars

\* An id accepted at least 3 horizons ago, whose window entry is gone, has
\* been resubmitted and rejected by on_video_change.
C6_Witness ==
    \E t \in Threads :
        /\ pc[t] = "ovc_ret"
        /\ ~ovc[t].ret
        /\ AcceptedLongAgo(ovc[t].video_data.video_id)
        /\ ovc[t].video_data.video_id \notin DOMAIN _recent_added

\* C8: the DedupWindow is serialized between the polling task and the push
\* handler, so that an id recorded in the window is not lost to a
\* concurrent prune or update: an id leaves the window only when the prune
\* finds its entry older than twice the horizon.
C8_NoLostWindowUpdate ==
    [][ \A k \in DOMAIN _recent_added :
            \/ k \in DOMAIN _recent_added'
            \/ pollNow - _recent_added[k] >= duplicate_sec * 2 ]_vars

\* The positions in which a thread reads or writes the history document,
\* and the subscription store.
InLedgerDomain(t) == pc[t] \in {"ovc_cs", "serve_history_cs", "serve_stats_cs"}
InSubsDomain(t) == pc[t] \in {"subs_cs", "serve_subs_cs"}

\* C7: every read-modify-write of the ledger runs while holding the ledger
\* lock and every access to the subscription store runs while holding the
\* subscription lock, so that at no time are two threads inside the same
\* domain.
C7_LockDiscipline ==
    /\ \A t \in Threads : InLedgerDomain(t) => _history_lock = t
    /\ \A t \in Threads : InSubsDomain(t) => _subs_lock = t
    /\ \A t, u \in Threads :
          (InLedgerDomain(t) /\ InLedgerDomain(u)) \/ (InSubsDomain(t) /\ InSubsDomain(u))
              => t = u

\* The polling thread updates the subscription store while the server
\* thread, which wants to read it for the history page, waits for the lock.
C7_Witness ==
    /\ pc[Poll] = "subs_cs"
    /\ pc[Http] = "serve_subs_lock"
    /\ _subs_lock = Poll

\* C9: at no time are two fetches to the remote source in flight at once,
\* counting the fetches of the polling task and the recommendation fetch of
\* the manual refresh call.
C9_NoParallelFetches ==
    ~(RequestSent(inflight[Poll]) /\ RequestSent(inflight[Http]))

\* The records cached from the last fetch of a kind that produced any.
CachedItems(kind) ==
    CASE kind = "history" -> history_data
      [] kind = "subscriptions" -> subscriptions_data.items
      [] OTHER -> recommended_data.items

\* A step leaves the cached result of a fetch kind as it is.
CacheRetained(kind) ==
    CASE kind = "history" -> history_data' = history_data
      [] kind = "subscriptions" -> subscriptions_data' = subscriptions_data
      [] OTHER -> recommended_data' = recommended_data

\* C10: when a fetch of any kind fails through a transport error, a timeout
\* or a rate-limited (429) response, the result cached from the last
\* successful fetch of that kind (one that produced records) is retained
\* unchanged.
C10_FailedFetchRetainsCache ==
    [][ \A t \in Threads :
          ( /\ pc[t] \in {"fetch_history", "fetch_subs", "fetch_rec"}
            /\ pc'[t] # pc[t]
            /\ inflight[t].status \in {"error", "429"}
            /\ CachedItems(inflight[t].kind) # <<>> )
              => CacheRetained(inflight[t].kind) ]_vars

\* ------------------------------------------------- cycles whose fetches fail
\* State after main() when the start-up fetches succeeded: the history and
\* the roster are cached and the roster's snapshot is stored (main.py
\* 943-958); the fetch_recommended option is off.
StartupRoster == <<[channel_name |-> "A"], [channel_name |-> "B"]>>
InitStarted(e) ==
    /\ env = e
    /\ now = StartTime
    /\ today = 0
    /\ historyFile = ValidDoc(EmptyLedger)
    /\ subsFile = ValidStore(update_subscription_changes(EmptyStore, StartupRoster, 0))
    /\ _history_lock = NoThread
    /\ _subs_lock = NoThread
    /\ _last_seen_video_id = Missing
    /\ _recent_added = NoWindow
    /\ _last_recommended_fetch = 0
    /\ _last_manual_refresh_recommended = 0
    /\ _last_subscriptions_fetch = StartTime
    /\ history_data = <<VideoRec("a"), VideoRec("b")>>
    /\ subscriptions_data = SomeData(StartupRoster)
    /\ recommended_data = NoneData
    /\ pc = [t \in Threads |-> IF t = "poll" THEN "loop_top" ELSE "idle"]
    /\ inflight = [t \in Threads |-> NoResp]
    /\ ovc = [t \in Threads |-> NoOvc]
    /\ pollNow = StartTime
    /\ pruneSrc = NoWindow
    /\ httpNow = 0
    /\ httpVid = Missing
    /\ httpResp = "none"
    /\ faults = 0

\* Every fetch of the polling thread fails: no session, transport error or
\* timeout, HTTP 429, or a page without the embedded document.  Clients
\* push videos meanwhile.
FailingEnv ==
    Env(FALSE, Failures("history"), Failures("subscriptions"), {},
        { PlainBody("a"), PlainBody("b") }, 0, MaxElapsed, TRUE)

InitFailing == InitStarted(FailingEnv)

NextFailing ==
    \/ Tick
    \/ PollFetchHistoryBegin
    \/ PollFetchHistoryEnd
    \/ PollFetchSubsEnd
    \/ PollSubsLock
    \/ PollSubsUpdate
    \/ PollProcess
    \/ \E t \in Threads : OvcLock(t)
    \/ \E t \in Threads : OvcSave(t)
    \/ \E data \in env.bodies : IngestStart(data)
    \/ IngestFinish
    \/ HttpDone

SpecFailing == InitFailing /\ [][NextFailing]_vars

\* C11: a polling cycle in which the history fetch or the subscription fetch
\* fails leaves the persisted ledger document and the persisted
\* subscription store document exactly as they were: where every fetch
\* fails, no step of the polling thread changes either document.
C11_FailedCycleLeavesDocuments ==
    [][ pc'[Poll] # pc[Poll] =>
            (historyFile' = historyFile /\ subsFile' = subsFile) ]_vars

\* C12: when the write of the ledger document fails while a candidate is
\* being persisted, the update is not rolled back, so that the next
\* successful ledger write still carries the entry: when on_video_change
\* has reported a candidate as saved and the other thread, having read the
\* document as it stands, then writes it successfully, the written document
\* holds the candidate's entry.
C12_NextWriteCarriesEntry ==
    [][ \A t, u \in Threads :
          ( /\ t # u
            /\ pc[t] = "ovc_ret"
            /\ ovc[t].ret
            /\ pc[u] = "ovc_cs"
            /\ pc'[u] = "ovc_ret"
            /\ ovc[u].history = historyFile.doc
            /\ historyFile' # historyFile
            /\ historyFile'.valid )
              => \E e \in EntriesOf(historyFile'.doc) :
                    e.video_id = ovc[t].video_data.video_id ]_vars

\* ------------------------------------------------ the loop under failures
\* Something inside the try block of fetch_loop (main.py 205-242) raises: a
\* fetch after its request, the subscription diff, or persisting.  A `with`
\* block releases its lock on the way out, and the exception reaches the
\* except clause of line 243.
PollRaise ==
    /\ pc[Poll] \in {"fetch_history", "fetch_subs", "fetch_rec", "subs_cs", "ovc_cs"}
    /\ pc' = [pc EXCEPT ![Poll] = AfterException]
    /\ inflight' = [inflight EXCEPT ![Poll] = NoResp]
    /\ ovc' = [ovc EXCEPT ![Poll] = NoOvc]
    /\ _subs_lock' = IF _subs_lock = Poll THEN NoThread ELSE _subs_lock
    /\ _history_lock' = IF _history_lock = Poll THEN NoThread ELSE _history_lock
    /\ UNCHANGED <<clockVars, fileVars, windowVars, stampVars, cacheVars,
                   pollLocals, httpLocals, faults, env>>

\* time.sleep(interval) (main.py 245) returns once the interval is over,
\* also after the last tick the bounded clock shows.
SleepReturns ==
    /\ pc[Poll] = "sleep"
    /\ now = StartTime + env.maxElapsed
    /\ pc' = [pc EXCEPT ![Poll] = "loop_top"]
    /\ UNCHANGED <<clockVars, fileVars, lockVars, windowVars, stampVars,
                   cacheVars, inflight, ovc, pollLocals, httpLocals, faults,
                   env>>

LiveMaxElapsed == 2

LiveEnv ==
    Env(TRUE,
        { Page("history", <<VideoRec("a")>>), Failure("history", "error") },
        { Page("subscriptions", <<[channel_name |-> "A"]>>),
          Failure("subscriptions", "429") },
        { Page("recommended", <<VideoRec("a")>>), Failure("recommended", "error") },
        { PlainBody("a") }, MaxFaults, LiveMaxElapsed, FALSE)

InitLive == InitIn(LiveEnv)

\* The steps of the polling thread that the thread takes by itself.
PollStep ==
    \/ PollFetchHistoryBegin
    \/ PollFetchHistoryEnd
    \/ PollFetchSubsEnd
    \/ PollSubsUpdate
    \/ PollFetchRecEnd
    \/ PollProcess
    \/ OvcSave(Poll)
    \/ PollAfterOvc
    \/ PollPruneStore
    \/ PollExcept
    \/ SleepReturns

\* The steps of a request handler once a request has arrived.
HttpStep ==
    \/ OvcLock(Http)
    \/ OvcSave(Http)
    \/ IngestFinish
    \/ HttpDone

NextLive ==
    \/ Tick
    \/ PollStep
    \/ PollRaise
    \/ PollSubsLock
    \/ OvcLock(Poll)
    \/ HttpStep
    \/ \E data \in env.bodies : IngestStart(data)

\* Both threads are scheduled (weak fairness of their own steps), a thread
\* waiting for a lock that is released again and again gets it in the end
\* (strong fairness of the two acquisitions), and time passes.
SpecLive ==
    /\ InitLive
    /\ [][NextLive]_vars
    /\ WF_vars(PollStep)
    /\ WF_vars(HttpStep)
    /\ SF_vars(PollSubsLock)
    /\ SF_vars(OvcLock(Poll))
    /\ SF_vars(Tick)

\* C13: the polling task never terminates because of an error: whatever
\* fails inside a cycle, the except clause catches it and after the sleep
\* the next cycle starts; the task starts infinitely many cycles.
C13_InfinitelyManyCycles == []<>(pc[Poll] = "fetch_history")

\* An exception has reached the except clause in a run in which a read or
\* write of the history document has failed too.
C13_Witness == pc[Poll] = "except" /\ faults = env.maxFaults /\ faults > 0

\* --------------------------------------------------- invalid push ingest
ClientErrors == {"400 Invalid JSON", "400 video_id required"}

\* The body cannot be parsed, or it carries no id, or its id is the
\* unresolved sentinel.
NoUsableId(data) ==
    \/ ~data.parsable
    \/ ~data.is_dict
    \/ /\ data.video_id \in {Missing, ""}
       /\ data.videoId \in {Missing, ""}
    \/ data.video_id = NA
    \/ data.video_id \in {Missing, ""} /\ data.videoId = NA

\* C14: a push-ingest call whose body cannot be parsed, or whose id is
\* missing or the unresolved sentinel, is answered with a client-error
\* response and leaves the ledger, the DedupWindow and the last-seen id
\* unchanged.
C14_InvalidIngestRejected ==
    [][ \A data \in env.bodies :
          (NoUsableId(data) /\ IngestStart(data)) =>
             /\ httpResp' \in ClientErrors
             /\ historyFile' = historyFile
             /\ _recent_added' = _recent_added
             /\ _last_seen_video_id' = _last_seen_video_id ]_vars

\* ------------------------------------------------- the subscription diff
\* Rosters as fetch_subscriptions builds them (fetcher.py 444-446: trimmed,
\* non-empty names), the last one from a shelf without a usable title.
SubsRosters ==
    { <<[channel_name |-> "A"], [channel_name |-> "B"], [channel_name |-> "C"]>>,
      <<[channel_name |-> "B"], [channel_name |-> "C"], [channel_name |-> "D"]>>,
      <<>> }

SubsMaxElapsed == 6

\* The polling thread alone: the history fetch fails, the subscription
\* fetch meets a roster page, HTTP 429 or a transport error, and one read
\* or write of the subscription document may fail.
SubsEnv ==
    Env(FALSE, { Failure("history", "error") },
        { Failure("subscriptions", "429"), Failure("subscriptions", "error") }
            \cup { Page("subscriptions", r) : r \in SubsRosters },
        {}, {}, MaxFaults, SubsMaxElapsed, FALSE)

InitSubs == InitIn(SubsEnv)

NextSubs ==
    \/ Tick
    \/ PollFetchHistoryBegin
    \/ PollFetchHistoryEnd
    \/ PollFetchSubsEnd
    \/ PollSubsLock
    \/ PollSubsUpdate
    \/ PollProcess

SpecSubs == InitSubs /\ [][NextSubs]_vars

\* The polling thread runs update_subscription_changes in this step.
DiffRuns == pc[Poll] = "subs_cs" /\ pc'[Poll] # "subs_cs"

\* The names of the roster handed to the diff.
RosterNames ==
    { subscriptions_data.items[i].channel_name :
        i \in 1..Len(subscriptions_data.items) }

\* The month's two sets in a change log, empty when the month is absent.
MonthSets(monthly, m) ==
    IF m \in DOMAIN monthly THEN monthly[m] ELSE [added |-> {}, removed |-> {}]

\* C15: a diff run with prior snapshot P and current roster C unions exactly
\* added = C \ P and removed = P \ C into the current month of the log and
\* leaves the other months alone; when both are empty no month is created;
\* when no prior snapshot exists the log is left as it is and only the
\* snapshot is stored.  (Runs whose read and write of the document succeed.)
C15_DiffIsSetDifference ==
    [][ (DiffRuns /\ faults' = faults /\ subsFile.valid) =>
          LET P == subsFile.doc.last_snapshot
              C == RosterNames
              old == subsFile.doc.monthly_changes
              new == subsFile'.doc.monthly_changes
              m == MonthOf(today)
          IN  /\ subsFile'.valid
              /\ subsFile'.doc.last_snapshot.channels = C
              /\ IF P.present /\ (C \ P.channels # {} \/ P.channels \ C # {})
                 THEN /\ DOMAIN new = DOMAIN old \cup {m}
                      /\ new[m].added = MonthSets(old, m).added \cup (C \ P.channels)
                      /\ new[m].removed = MonthSets(old, m).removed \cup (P.channels \ C)
                      /\ \A k \in DOMAIN old : k # m => new[k] = old[k]
                 ELSE new = old ]_vars

\* The example of the claim: previous {A,B,C}, current {B,C,D} has put D
\* into added and A into removed.
C15_Witness ==
    /\ subsFile.valid
    /\ subsFile.doc.last_snapshot.channels = {"B", "C", "D"}
    /\ \E m \in DOMAIN subsFile.doc.monthly_changes :
          /\ subsFile.doc.monthly_changes[m].added = {"D"}
          /\ subsFile.doc.monthly_changes[m].removed = {"A"}

C17_MonthlySetsOnlyGrow ==
    [][ LET old == subsFile.doc.monthly_changes
            new == subsFile'.doc.monthly_changes
        IN  \A m \in DOMAIN old :
               /\ m \in DOMAIN new
               /\ old[m].added \subseteq new[m].added
               /\ old[m].removed \subseteq new[m].removed ]_vars

\* C18: after every successful roster fetch the persisted snapshot is
\* replaced: once the cycle is past its subscription part, the snapshot's
\* channel set is exactly the set of names of the roster just fetched,
\* whatever the roster holds.  (Stated for runs in which no read or write
\* of the document has failed.)
C18_SnapshotIsFetchedRoster ==
    ( /\ pc[Poll] = "process"
      /\ pollNow > StartTime
      /\ _last_subscriptions_fetch = pollNow
      /\ ~subscriptions_data.isNone
      /\ faults = 0 ) =>
        /\ subsFile.valid
        /\ subsFile.doc.last_snapshot.present
        /\ subsFile.doc.last_snapshot.channels = RosterNames

\* ------------------------------------------- the watch-history collector
\* An item of an itemSectionRenderer.contents list, by the key the collector
\* dispatches on (fetcher.py 350-373): the id the extractor will find, the
\* contentType of a lockup, the content key of a rich item, the items of a
\* reel shelf.
Item(key, contentType, content, id, items) ==
    [key |-> key, contentType |-> contentType, content |-> content, id |-> id, items |-> items]
Lockup(id) == Item("lockupViewModel", "LOCKUP_CONTENT_TYPE_VIDEO", Missing, id, <<>>)
PlaylistLockup(id) == Item("lockupViewModel", "LOCKUP_CONTENT_TYPE_PLAYLIST", Missing, id, <<>>)
Legacy(id) == Item("videoRenderer", Missing, Missing, id, <<>>)
Rich(id) == Item("richItemRenderer", Missing, "videoRenderer", id, <<>>)
RichAd == Item("richItemRenderer", Missing, "adSlotRenderer", Missing, <<>>)
ReelItem(id) == Item("shortsLockupViewModel", Missing, Missing, id, <<>>)
Shelf(items) == Item("reelShelfRenderer", Missing, Missing, Missing, items)
Message == Item("messageRenderer", Missing, Missing, Missing, <<>>)
Continuation == Item("continuationItemRenderer", Missing, Missing, Missing, <<>>)

\* ---- the duration of a modern card (fetcher.py 147-194)
\* An overlay of contentImage.thumbnailViewModel.overlays, by the key the
\* extractor dispatches on; a badge of its badge list; the texts of a
\* thumbnailOverlayTimeStatusRenderer.
Badge(isBadge, text, badgeStyle) ==
    [isBadge |-> isBadge, text |-> text, badgeStyle |-> badgeStyle]
Overlay(key, badges, simpleText, hasAccessibility, label) ==
    [key |-> key, badges |-> badges, simpleText |-> simpleText,
     hasAccessibility |-> hasAccessibility, label |-> label]
BadgeOverlay(badges) == Overlay("thumbnailOverlayBadgeViewModel", badges, Missing, FALSE, Missing)
TimeStatusOverlay(simpleText, hasAccessibility, label) ==
    Overlay("thumbnailOverlayTimeStatusRenderer", <<>>, simpleText, hasAccessibility, label)
BottomOverlay(badges) == Overlay("thumbnailBottomOverlayViewModel", badges, Missing, FALSE, Missing)
OtherOverlay == Overlay("thumbnailHoverOverlayViewModel", <<>>, Missing, FALSE, Missing)

\* The texts of the model's cards, as their characters.
chars ==
    [t \in {"3:45"} |-> <<"3", ":", "4", "5">>] @@
    [t \in {"12:34"} |-> <<"1", "2", ":", "3", "4">>] @@
    [t \in {"1:02:03"} |-> <<"1", ":", "0", "2", ":", "0", "3">>] @@
    [t \in {"12:34 / 56:00"} |-> <<"1", "2", ":", "3", "4", " ", "/", " ", "5", "6", ":", "0", "0">>] @@
    [t \in {"123:45"} |-> <<"1", "2", "3", ":", "4", "5">>] @@
    [t \in {"NEW"} |-> <<"N", "E", "W">>] @@
    [t \in {"4K"} |-> <<"4", "K">>] @@
    [t \in {"LIVE"} |-> <<"L", "I", "V", "E">>] @@
    [t \in {"U+B77C U+C774 U+BE0C"} |-> <<"U+B77C", "U+C774", "U+BE0C">>] @@
    [t \in {"Ch"} |-> <<"C", "h">>] @@
    [t \in {"N/A"} |-> <<"N", "/", "A">>] @@
    [t \in {""} |-> <<>>]

\* One or two digits, a colon and two digits, from position 1.
timecode_head(s, k) ==
    /\ Len(s) >= k + 3
    /\ \A i \in 1..k : s[i] \in DigitChars
    /\ s[k + 1] = ":"
    /\ s[k + 2] \in DigitChars
    /\ s[k + 3] \in DigitChars
\* re.match(r"^\d{1,2}:\d{2}", text)
match_timecode(text) == \E k \in {1, 2} : timecode_head(chars[text], k)
\* re.match(r"^\d{1,2}:\d{2}(:\d{2})?$", text)
match_duration(text) ==
    LET s == chars[text]
    IN  \E k \in {1, 2} :
           /\ timecode_head(s, k)
           /\ \/ Len(s) = k + 3
              \/ /\ Len(s) = k + 6
                 /\ s[k + 4] = ":"
                 /\ s[k + 5] \in DigitChars
                 /\ s[k + 6] \in DigitChars

LiveTexts == {"U+B77C U+C774 U+BE0C", "LIVE"}

\* The live test of a badge overlay's badge (fetcher.py 160).
is_live_badge(badge) ==
    \/ Get(badge, "badgeStyle", "") = "THUMBNAIL_OVERLAY_BADGE_STYLE_LIVE"
    \/ Get(badge, "text", "") \in LiveTexts

\* fetcher.py 155-165: the badges of a badge overlay, in list order, until
\* one is live or reads as a timecode.
RECURSIVE badge_overlay_duration(_)
badge_overlay_duration(badges) ==
    IF badges = <<>> THEN NA
    ELSE LET badge == Head(badges)
             text == Get(badge, "text", "")
         IN  IF badge.isBadge /\ is_live_badge(badge) THEN "LIVE"
             ELSE IF badge.isBadge /\ text # "" /\ match_timecode(text) THEN text
             ELSE badge_overlay_duration(Tail(badges))

\* fetcher.py 178-182: the text of the first badge of a bottom overlay.
RECURSIVE bottom_overlay_duration(_)
bottom_overlay_duration(badges) ==
    IF badges = <<>> THEN NA
    ELSE IF Head(badges).isBadge THEN Get(Head(badges), "text", NA)
    ELSE bottom_overlay_duration(Tail(badges))

\* fetcher.py 151-184: the overlays in list order; the loop ends at the
\* first overlay that gives a duration, and at a time-status overlay with
\* either of its texts.
RECURSIVE overlays_duration(_)
overlays_duration(overlays) ==
    IF overlays = <<>> THEN NA
    ELSE LET overlay == Head(overlays)
             rest == overlays_duration(Tail(overlays))
         IN  IF overlay.key = "thumbnailOverlayBadgeViewModel"
             THEN LET duration == badge_overlay_duration(overlay.badges)
                  IN  IF duration # NA THEN duration ELSE rest
             ELSE IF overlay.key = "thumbnailOverlayTimeStatusRenderer"
             THEN IF overlay.simpleText # Missing THEN overlay.simpleText
                  ELSE IF overlay.hasAccessibility THEN Get(overlay, "label", NA)
                  ELSE rest
             ELSE IF overlay.key = "thumbnailBottomOverlayViewModel"
             THEN LET duration == bottom_overlay_duration(overlay.badges)
                  IN  IF duration # NA THEN duration ELSE rest
             ELSE rest

\* fetcher.py 186-194: the first part of the metadata rows that reads as a
\* duration; a row is the list of its parts' texts.
RECURSIVE rows_duration(_)
rows_duration(parts) ==
    IF parts = <<>> THEN NA
    ELSE IF match_duration(Head(parts)) THEN Head(parts)
    ELSE rows_duration(Tail(parts))
RECURSIVE Flatten(_)
Flatten(rows) == IF rows = <<>> THEN <<>> ELSE Head(rows) \o Flatten(Tail(rows))

\* fetcher.py 147-194
lockup_duration(overlays, metadata_rows) ==
    LET duration == overlays_duration(overlays)
    IN  IF duration = NA THEN rows_duration(Flatten(metadata_rows)) ELSE duration

\* A card of which only the id is spelled out has one overlay, a badge that
\* reads 3:45, and one metadata row, the channel.
overlays_of(lockup) ==
    IF "overlays" \in DOMAIN lockup THEN lockup.overlays
    ELSE <<BadgeOverlay(<<Badge(TRUE, "3:45", Missing)>>)>>
metadata_rows_of(lockup) ==
    IF "metadataRows" \in DOMAIN lockup THEN lockup.metadataRows ELSE <<<<"Ch">>>>

\* fetcher.py 118-199: None without contentId, else the record.
_extract_lockup_info(lockup) ==
    IF Falsy(lockup.id) THEN <<>>
    ELSE <<[VideoRec(lockup.id) EXCEPT
              !.duration = lockup_duration(overlays_of(lockup), metadata_rows_of(lockup))]>>

\* fetcher.py 208-243: vr.get("videoId", "N/A"); always a record.
_extract_video_renderer_info(vr) == <<VideoRec(Get(vr, "id", NA))>>

\* fetcher.py 245-274: None without an id, else the record of a short.
_extract_shorts_info(shorts) ==
    IF Falsy(shorts.id) THEN <<>> ELSE <<ShortsRec(shorts.id)>>

\* fetcher.py 368-373: the first shortsLockupViewModel of the shelf is
\* extracted, then `break`.
RECURSIVE first_short(_)
first_short(items) ==
    IF items = <<>> THEN <<>>
    ELSE IF Head(items).key = "shortsLockupViewModel"
    THEN _extract_shorts_info(Head(items))
    ELSE first_short(Tail(items))

Buffers(lockups, video_renderers, shorts_list) ==
    [lockups |-> lockups, video_renderers |-> video_renderers, shorts_list |-> shorts_list]

\* fetcher.py 350-373: one item goes to at most one of the three lists.
collect_item(item, b) ==
    IF item.key = "lockupViewModel"
    THEN IF item.contentType = "LOCKUP_CONTENT_TYPE_VIDEO"
         THEN [b EXCEPT !.lockups = @ \o _extract_lockup_info(item)]
         ELSE b
    ELSE IF item.key = "videoRenderer"
    THEN [b EXCEPT !.video_renderers = @ \o _extract_video_renderer_info(item)]
    ELSE IF item.key = "richItemRenderer"
    THEN IF item.content = "videoRenderer"
         THEN [b EXCEPT !.video_renderers = @ \o _extract_video_renderer_info(item)]
         ELSE b
    ELSE IF item.key = "reelShelfRenderer"
    THEN [b EXCEPT !.shorts_list = @ \o first_short(item.items)]
    ELSE b

RECURSIVE collect_items(_, _)
collect_items(path, b) ==
    IF path = <<>> THEN b
    ELSE collect_items(Tail(path), collect_item(Head(path), b))

\* fetcher.py 344-348: a list that holds a messageRenderer is skipped.
has_message(path) == \E i \in 1..Len(path) : path[i].key = "messageRenderer"

RECURSIVE collect_paths(_, _)
collect_paths(all_paths, b) ==
    IF all_paths = <<>> THEN b
    ELSE collect_paths(Tail(all_paths),
                       IF has_message(Head(all_paths)) THEN b
                       ELSE collect_items(Head(all_paths), b))

\* A collector that puts the shorts first.
history_list_ShortsFirst(lockups, video_renderers, shorts_list) ==
    shorts_list \o lockups \o video_renderers

\* fetcher.py 375: lockups + video_renderers + shorts_list
history_list(lockups, video_renderers, shorts_list) ==
    lockups \o video_renderers \o shorts_list

\* fetcher.py 316-376: the item lists of the page (the empty ones are left
\* out), the three buckets, the concatenation and the cut.
collect_history(page) ==
    LET all_paths == SelectSeq(page, LAMBDA contents : contents # <<>>)
        b == collect_paths(all_paths, Buffers(<<>>, <<>>, <<>>))
    IN  Take(history_list(b.lockups, b.video_renderers, b.shorts_list),
             MAX_HISTORY_ITEMS)

\* Ids "v1", "v2", ...
IdOf(i) == "v" \o ToString(i)

LongLegacy == 12
LongLockups == 12
LongShelves == 3

\* A long page in the order legacy, shelves, modern cards.
LongList ==
    [i \in 1..LongLegacy |-> Legacy(IdOf(i))]
      \o [i \in 1..LongShelves |-> Shelf(<<ReelItem(IdOf(100 + i)), ReelItem(IdOf(200 + i))>>)]
      \o [i \in 1..LongLockups |-> Lockup(IdOf(300 + i))]

ThreeKinds ==
    { Lockup("m1"), Legacy("g1"), Shelf(<<ReelItem("s1"), ReelItem("s2")>>) }

PageItems ==
    ThreeKinds \cup
    { Lockup("m2"), Lockup(Missing), PlaylistLockup("p1"), Legacy(Missing),
      Rich("g2"), RichAd, Shelf(<<Continuation, ReelItem("s3")>>),
      Shelf(<<ReelItem(Missing), ReelItem("s4")>>), Message, Continuation }

\* Pages: a list per itemSectionRenderer.  One list with the three kinds in
\* every order, every list of two items, pages of two lists (one of them
\* empty or holding a message), a page without lists, and the long page.
HistoryPages ==
    { <<<<a, b, c>>>> : a \in ThreeKinds, b \in ThreeKinds, c \in ThreeKinds }
      \cup { <<<<a, b>>>> : a \in PageItems, b \in PageItems }
      \cup { <<p, <<a, Lockup("m1")>>>> :
               p \in { <<>>, <<Legacy("g1"), Message>>, <<Shelf(<<ReelItem("s1")>>), Legacy("g1")>> },
               a \in ThreeKinds }
      \cup { <<>>, <<LongList>> }

CollectEnv ==
    Env(FALSE, { Page("history", p) : p \in HistoryPages },
        { Failure("subscriptions", "error") }, {}, {}, 0, 0, FALSE)

InitCollect == InitIn(CollectEnv)

\* fetcher.py 316-378: fetch_history() from the parsed document on; the
\* thread is back in fetch_loop with the list in fetcher.history_data.
PollCollectHistory ==
    /\ pc[Poll] = "fetch_history"
    /\ history_data' = collect_history(inflight[Poll].payload)
    /\ pc' = [pc EXCEPT ![Poll] = "collected"]
    /\ UNCHANGED <<clockVars, fileVars, lockVars, windowVars, stampVars,
                   subscriptions_data, recommended_data, inflight, ovc,
                   pollLocals, httpLocals, faults, env>>

\* The next cycle's fetch_history().
PollCollectAgain ==
    /\ pc[Poll] = "collected"
    /\ \E r \in env.history : inflight' = [inflight EXCEPT ![Poll] = r]
    /\ pc' = [pc EXCEPT ![Poll] = "fetch_history"]
    /\ UNCHANGED <<clockVars, fileVars, lockVars, windowVars, stampVars,
                   cacheVars, ovc, pollLocals, httpLocals, faults, env>>

NextCollect ==
    \/ PollFetchHistoryBegin
    \/ PollCollectHistory
    \/ PollCollectAgain

SpecCollect == InitCollect /\ [][NextCollect]_vars

\* The items of the page's lists that hold no message, in page order.
RECURSIVE SurvivingItems(_)
SurvivingItems(page) ==
    IF page = <<>> THEN <<>>
    ELSE (IF \E i \in 1..Len(Head(page)) : Head(page)[i].key = "messageRenderer"
          THEN <<>> ELSE Head(page)) \o SurvivingItems(Tail(page))

IsModernCard(item) ==
    /\ item.key = "lockupViewModel"
    /\ item.contentType = "LOCKUP_CONTENT_TYPE_VIDEO"
    /\ item.id \notin {Missing, ""}
IsLegacyRender(item) ==
    \/ item.key = "videoRenderer"
    \/ item.key = "richItemRenderer" /\ item.content = "videoRenderer"
ShortOf(item) ==
    LET shorts == SelectSeq(item.items, LAMBDA ri : ri.key = "shortsLockupViewModel")
    IN  IF shorts = <<>> THEN Missing ELSE shorts[1].id
IsShortForm(item) ==
    item.key = "reelShelfRenderer" /\ ShortOf(item) \notin {Missing, ""}

\* The records of one kind, in page order.
ModernRecords(page) ==
    LET s == SelectSeq(SurvivingItems(page), IsModernCard)
    IN  [i \in 1..Len(s) |-> VideoRec(s[i].id)]
LegacyRecords(page) ==
    LET s == SelectSeq(SurvivingItems(page), IsLegacyRender)
    IN  [i \in 1..Len(s) |-> VideoRec(IF s[i].id = Missing THEN NA ELSE s[i].id)]
ShortRecords(page) ==
    LET s == SelectSeq(SurvivingItems(page), IsShortForm)
    IN  [i \in 1..Len(s) |-> ShortsRec(ShortOf(s[i]))]

\* C19: for a watch-history page the collector's output is all modern-card
\* records in page order, then all legacy-render records in page order,
\* then all short-form records in page order, cut to the first 20,
\* whatever the order of the three kinds of item on the page.
C19_CollectorOrder ==
    pc[Poll] = "collected" =>
        LET page == inflight[Poll].payload
            all == ModernRecords(page) \o LegacyRecords(page) \o ShortRecords(page)
        IN  history_data = SubSeq(all, 1, IF Len(all) < 20 THEN Len(all) ELSE 20)

\* The long page lists its legacy items first and its modern cards last;
\* the output starts with the first modern card and is cut to 20.
C19_Witness ==
    /\ pc[Poll] = "collected"
    /\ inflight[Poll].payload = <<LongList>>
    /\ Len(history_data) = 20
    /\ history_data[1] = VideoRec(IdOf(301))
    /\ history_data[LongLockups + 1] = VideoRec(IdOf(1))

\* ------------------------------------------ the recursive fallback locator
\* A parsed JSON value: a dict (its items in order), a list, or a leaf;
\* every node carries a name of its own.  The values under the keys
\* "lockupViewModel" and "videoRenderer" are the dicts the extractors read.
DictNode(name, entries) == [type |-> "dict", name |-> name, entries |-> entries]
ListNode(name, elems) == [type |-> "list", name |-> name, elems |-> elems]
LeafNode(name) == [type |-> "leaf", name |-> name]
Entry(k, v) == [k |-> k, v |-> v]
LockupValue(contentType, id) == [type |-> "lockup", contentType |-> contentType, id |-> id]
VideoRendererValue(id) == [type |-> "vr", id |-> id]

\* "key" in node
HasKey(node, key) == \E i \in 1..Len(node.entries) : node.entries[i].k = key
\* node["key"]
ValueOf(node, key) ==
    node.entries[CHOOSE i \in 1..Len(node.entries) : node.entries[i].k = key].v

max_depth == 8

\* A locator that skips no key.
is_skipped_key_Never(k) == FALSE

\* fetcher.py 649: k in ("continuationItemRenderer", "adSlotRenderer")
is_skipped_key(k) == k \in {"continuationItemRenderer", "adSlotRenderer"}

\* fetcher.py 631-655, _collect(node, depth): acc.videos is the list
\* `videos`, acc.visited the names of the nodes the body has looked at.
RECURSIVE _collect(_, _, _, _)
RECURSIVE _collect_items(_, _, _, _)
RECURSIVE _collect_list(_, _, _, _)
_collect(node, depth, max_count, acc) ==
    IF Len(acc.videos) >= max_count \/ depth > max_depth THEN acc
    ELSE LET seen == [acc EXCEPT !.visited = @ \cup {node.name}]
         IN  IF node.type = "dict"
             THEN IF HasKey(node, "lockupViewModel")
                  THEN LET lockup == ValueOf(node, "lockupViewModel")
                       IN  IF lockup.contentType = "LOCKUP_CONTENT_TYPE_VIDEO"
                           THEN [seen EXCEPT !.videos = @ \o _extract_lockup_info(lockup)]
                           ELSE seen
                  ELSE IF HasKey(node, "videoRenderer")
                  THEN [seen EXCEPT !.videos =
                           @ \o _extract_video_renderer_info(ValueOf(node, "videoRenderer"))]
                  ELSE _collect_items(node.entries, depth, max_count, seen)
             ELSE IF node.type = "list"
             THEN _collect_list(node.elems, depth, max_count, seen)
             ELSE seen

\* for k, v in node.items(): ... _collect(v, depth + 1)
_collect_items(entries, depth, max_count, acc) ==
    IF entries = <<>> THEN acc
    ELSE _collect_items(Tail(entries), depth, max_count,
                        IF is_skipped_key(Head(entries).k) THEN acc
                        ELSE _collect(Head(entries).v, depth + 1, max_count, acc))

\* for x in node: _collect(x, depth + 1); stop once max_count is reached
_collect_list(elems, depth, max_count, acc) ==
    IF elems = <<>> THEN acc
    ELSE LET acc2 == _collect(Head(elems), depth + 1, max_count, acc)
         IN  IF Len(acc2.videos) >= max_count THEN acc2
             ELSE _collect_list(Tail(elems), depth, max_count, acc2)

\* fetcher.py 627-658
_find_videos_in_dict(obj, max_count) ==
    _collect(obj, 0, max_count, [videos |-> <<>>, visited |-> {}])

\* Subtrees, their node names and record ids built from a tag: a modern
\* card, a legacy renderer, a playlist card, a list of both kinds, a dict
\* with an ad slot beside a list, a dict with a continuation beside its own
\* card, a leaf, a list of four cards, and a card below nested dicts.
Card(tag) ==
    DictNode(tag, <<Entry("lockupViewModel", LockupValue("LOCKUP_CONTENT_TYPE_VIDEO", tag \o "-m"))>>)
Renderer(tag) ==
    DictNode(tag, <<Entry("videoRenderer", VideoRendererValue(tag \o "-g"))>>)
PlaylistCard(tag) ==
    DictNode(tag, <<Entry("lockupViewModel", LockupValue("LOCKUP_CONTENT_TYPE_PLAYLIST", tag \o "-p"))>>)

RECURSIVE Nested(_, _)
Nested(n, tag) ==
    IF n = 0 THEN Card(tag)
    ELSE DictNode(tag \o ToString(n), <<Entry("content", Nested(n - 1, tag))>>)

NestDepth == 8
Shapes == 1..9
Shape(i, tag) ==
    CASE i = 1 -> Card(tag)
      [] i = 2 -> Renderer(tag)
      [] i = 3 -> PlaylistCard(tag)
      [] i = 4 -> ListNode(tag, <<Card(tag \o "a"), Renderer(tag \o "b")>>)
      [] i = 5 -> DictNode(tag, <<Entry("adSlotRenderer", Card(tag \o "x")),
                                  Entry("items", ListNode(tag \o "l", <<Card(tag \o "i")>>))>>)
      [] i = 6 -> DictNode(tag, <<Entry("continuationItemRenderer",
                                        ListNode(tag \o "c", <<Renderer(tag \o "y")>>)),
                                  Entry("lockupViewModel",
                                        LockupValue("LOCKUP_CONTENT_TYPE_VIDEO", tag \o "-m"))>>)
      [] i = 7 -> LeafNode(tag)
      [] i = 8 -> ListNode(tag, <<Card(tag \o "a"), Card(tag \o "b"),
                                  Card(tag \o "c"), Card(tag \o "d")>>)
      [] OTHER -> Nested(NestDepth, tag)

TreeKeys == {"contents", "header", "adSlotRenderer", "continuationItemRenderer"}

\* Documents in which the two structured paths of
\* _parse_recommended_from_data find nothing: a dict of two subtrees, or a
\* list of a one-entry dict and a subtree.
LocatorTrees ==
    { DictNode("r", <<Entry(k1, Shape(i, "p")), Entry(k2, Shape(j, "q"))>>) :
        <<k1, k2, i, j>> \in { t \in TreeKeys \X TreeKeys \X Shapes \X Shapes : t[1] # t[2] } }
      \cup
    { ListNode("r", <<DictNode("d", <<Entry(k1, Shape(i, "p"))>>), Shape(j, "q")>>) :
        <<k1, i, j>> \in TreeKeys \X Shapes \X Shapes }

LocateMaxElapsed == 2

LocateEnv ==
    Env(TRUE, { Failure("history", "error") }, { Failure("subscriptions", "error") },
        { Page("recommended", t) : t \in LocatorTrees }, {}, 0, LocateMaxElapsed, FALSE)

InitLocate == InitIn(LocateEnv)

\* fetcher.py 546-567 and 605-610, then main.py 222: the document is
\* parsed, the recursive search runs over it, the result is cut and cached.
PollLocateRecommended ==
    LET found == _find_videos_in_dict(inflight[Poll].payload, MAX_RECOMMENDED_ITEMS).videos
    IN  /\ pc[Poll] = "fetch_rec"
        /\ recommended_data' = SomeData(Take(found, MAX_RECOMMENDED_ITEMS))
        /\ inflight' = [inflight EXCEPT ![Poll] = NoResp]
        /\ _last_recommended_fetch' = pollNow
        /\ pc' = [pc EXCEPT ![Poll] = "process"]
        /\ UNCHANGED <<clockVars, fileVars, lockVars, windowVars,
                       _last_subscriptions_fetch,
                       _last_manual_refresh_recommended, history_data,
                       subscriptions_data, ovc, pollLocals, httpLocals, faults,
                       env>>

NextLocate ==
    \/ Tick
    \/ PollFetchHistoryBegin
    \/ PollFetchHistoryEnd
    \/ PollFetchSubsEnd
    \/ PollLocateRecommended
    \/ PollProcess

SpecLocate == InitLocate /\ [][NextLocate]_vars

\* The names of all nodes of a subtree, and the ids of all its cards and
\* renderers.
RECURSIVE NamesIn(_)
NamesIn(node) ==
    IF node.type = "dict"
    THEN {node.name} \cup UNION { NamesIn(node.entries[i].v) : i \in 1..Len(node.entries) }
    ELSE IF node.type = "list"
    THEN {node.name} \cup UNION { NamesIn(node.elems[i]) : i \in 1..Len(node.elems) }
    ELSE IF node.type = "leaf" THEN {node.name}
    ELSE {}
RECURSIVE IdsIn(_)
IdsIn(node) ==
    IF node.type = "dict"
    THEN UNION { IdsIn(node.entries[i].v) : i \in 1..Len(node.entries) }
    ELSE IF node.type = "list"
    THEN UNION { IdsIn(node.elems[i]) : i \in 1..Len(node.elems) }
    ELSE IF node.type = "leaf" THEN {}
    ELSE {node.id}

Markers == {"continuationItemRenderer", "adSlotRenderer"}

\* What lies in subtrees stored under a marker key.
RECURSIVE NamesUnderMarkers(_)
NamesUnderMarkers(node) ==
    IF node.type = "dict"
    THEN UNION { IF node.entries[i].k \in Markers THEN NamesIn(node.entries[i].v)
                 ELSE NamesUnderMarkers(node.entries[i].v) : i \in 1..Len(node.entries) }
    ELSE IF node.type = "list"
    THEN UNION { NamesUnderMarkers(node.elems[i]) : i \in 1..Len(node.elems) }
    ELSE {}
RECURSIVE IdsUnderMarkers(_)
IdsUnderMarkers(node) ==
    IF node.type = "dict"
    THEN UNION { IF node.entries[i].k \in Markers THEN IdsIn(node.entries[i].v)
                 ELSE IdsUnderMarkers(node.entries[i].v) : i \in 1..Len(node.entries) }
    ELSE IF node.type = "list"
    THEN UNION { IdsUnderMarkers(node.elems[i]) : i \in 1..Len(node.elems) }
    ELSE {}

\* C20: the recursive fallback locator never visits a node inside a
\* subtree stored under a continuation-marker or ad-slot-marker key, and no
\* record of its result comes from such a subtree, also when the subtree
\* holds a well-formed modern card.
C20_LocatorSkipsMarkers ==
    [][ (pc[Poll] = "fetch_rec" /\ pc'[Poll] = "process") =>
          LET tree == inflight[Poll].payload
              run == _find_videos_in_dict(tree, MAX_RECOMMENDED_ITEMS)
          IN  /\ run.visited \cap NamesUnderMarkers(tree) = {}
              /\ \A i \in 1..Len(run.videos) :
                    run.videos[i].video_id \notin IdsUnderMarkers(tree)
              /\ \A i \in 1..Len(recommended_data'.items) :
                    recommended_data'.items[i].video_id \notin IdsUnderMarkers(tree) ]_vars

\* The search ran over a document whose subtree q is
\* {adSlotRenderer: card qx, items: [card qi]}: the card of the ad slot is
\* well-formed, the result holds the card of the list only.
C20_Witness ==
    /\ pc[Poll] = "process"
    /\ recommended_data.items = <<VideoRec("qi-m")>>

\* ------------------------------------------------- monthly aggregation
\* history_store._is_shorts (history_store.py 108-113): the mark of a
\* short in a ledger entry.
history_store_is_shorts_DurationOnly(entry) == entry.duration = "Shorts"

history_store_is_shorts(entry) ==
    entry.duration = "Shorts" \/ entry.channel = "YouTube Shorts"

\* history_store.get_monthly_breakdown (126-142): the loop over
\* history.items(), one date bucket after the other.
RECURSIVE breakdown_loop(_, _, _)
breakdown_loop(history, dates, monthly) ==
    IF dates = {} THEN monthly
    ELSE LET date_str == CHOOSE d \in dates : TRUE
             month == MonthOf(date_str)
             entries == history[date_str]
             start == IF month \in DOMAIN monthly THEN monthly[month]
                      ELSE [videos |-> 0, shorts |-> 0]
             n_shorts == Len(SelectSeq(entries, history_store_is_shorts))
             counted == [videos |-> start.videos + (Len(entries) - n_shorts),
                         shorts |-> start.shorts + n_shorts]
         IN  breakdown_loop(history, dates \ {date_str},
                            [m \in DOMAIN monthly \cup {month} |->
                                IF m = month THEN counted ELSE monthly[m]])

get_monthly_breakdown(history) ==
    breakdown_loop(history, DOMAIN history, [m \in {} |-> 0])

\* main._filter_shorts_from_history (main.py 136-141)
_filter_shorts_from_history(history) ==
    LET filtered == [d \in DOMAIN history |->
                        SelectSeq(history[d], LAMBDA e : ~_is_shorts(e))]
    IN  [d \in { k \in DOMAIN history : filtered[k] # <<>> } |-> filtered[d]]

\* Ledger documents found at start-up.  A document may hold shorts: the
\* file outlives the version of the add-on that wrote it.
StatsKinds == {"video", "short_by_duration", "short_by_channel"}
StatsDays == 0..2
Recorded(history, kind, id, day) ==
    add_entry(history, id, "T",
              IF kind = "short_by_channel" THEN "YouTube Shorts" ELSE "Ch",
              Thumb(id), WatchUrl(id),
              IF kind = "short_by_duration" THEN "Shorts" ELSE "3:45",
              [date |-> day, time |-> StartTime])

\* The ledger of the example: 3 videos and 2 shorts in 2024-05.
ExampleLedger ==
    Recorded(Recorded(Recorded(Recorded(Recorded(EmptyLedger,
        "video", "a", 0), "short_by_duration", "b", 0), "video", "c", 0),
        "short_by_channel", "d", 0), "video", "e", 0)

StatsLedgers ==
    { EmptyLedger, ExampleLedger, Recorded(ExampleLedger, "video", "f", 1) }
      \cup { Recorded(EmptyLedger, k, "a", d) : k \in StatsKinds, d \in StatsDays }
      \cup { Recorded(Recorded(EmptyLedger, k1, "a", d1), k2, "b", d2) :
               <<k1, d1, k2, d2>> \in StatsKinds \X StatsDays \X StatsKinds \X StatsDays }

StatsEnv ==
    Env(FALSE, { Failure("history", "error") }, { Failure("subscriptions", "error") },
        {}, {}, 0, 0, FALSE)

InitStats ==
    /\ env = StatsEnv
    /\ now = StartTime
    /\ today = 0
    /\ historyFile \in { ValidDoc(h) : h \in StatsLedgers }
    /\ subsFile = ValidStore(EmptyStore)
    /\ _history_lock = NoThread
    /\ _subs_lock = NoThread
    /\ _last_seen_video_id = Missing
    /\ _recent_added = NoWindow
    /\ _last_recommended_fetch = 0
    /\ _last_manual_refresh_recommended = 0
    /\ _last_subscriptions_fetch = StartTime
    /\ history_data = <<>>
    /\ subscriptions_data = NoneData
    /\ recommended_data = NoneData
    /\ pc = [t \in Threads |-> IF t = "poll" THEN "loop_top" ELSE "idle"]
    /\ inflight = [t \in Threads |-> NoResp]
    /\ ovc = [t \in Threads |-> NoOvc]
    /\ pollNow = StartTime
    /\ pruneSrc = NoWindow
    /\ httpNow = 0
    /\ httpVid = Missing
    /\ httpResp = "none"
    /\ faults = 0

\* main.py 419-429, GET /api/stats from the end of the `with` block: the
\* shorts are filtered out, the months are counted, the response is sent.
ServeStatsCount ==
    /\ pc[Http] = "serve_stats_cs"
    /\ _history_lock' = NoThread
    /\ Respond([monthly_breakdown |->
           get_monthly_breakdown(_filter_shorts_from_history(load_history(historyFile, TRUE)))])
    /\ UNCHANGED <<clockVars, fileVars, _subs_lock, windowVars, stampVars,
                   cacheVars, inflight, ovc, pollLocals, httpVid, faults, env>>

NextStats ==
    \/ ServeStatsLock
    \/ ServeStatsCount
    \/ HttpDone

SpecStats == InitStats /\ [][NextStats]_vars

\* The number of entries of a month that are, or are not, shorts.
CountIn(history, month, short) ==
    Cardinality({ p \in Positions(history) :
        /\ MonthOf(p[1]) = month
        /\ (\/ history[p[1]][p[2]].duration = "Shorts"
            \/ history[p[1]][p[2]].channel = "YouTube Shorts") = short })

\* The aggregation the claim describes.
IsMonthlyAggregation(monthly, history) ==
    /\ DOMAIN monthly = { MonthOf(d) : d \in DOMAIN history }
    /\ \A m \in DOMAIN monthly :
          /\ monthly[m].videos = CountIn(history, m, FALSE)
          /\ monthly[m].shorts = CountIn(history, m, TRUE)

\* C21: monthly aggregation puts every ledger entry into the month of its
\* date bucket and counts it as a short when its duration is the short-form
\* marker or its channel is the short-form label, otherwise as a video;
\* both for the ledger as stored and for the ledger GET /api/stats counts.
C21_MonthlyBreakdown ==
    [][ (pc[Http] = "serve_stats_cs" /\ pc'[Http] = "respond") =>
          /\ IsMonthlyAggregation(get_monthly_breakdown(historyFile.doc), historyFile.doc)
          /\ IsMonthlyAggregation(httpResp'.monthly_breakdown,
                                  _filter_shorts_from_history(historyFile.doc)) ]_vars

\* The example of the claim is being served: 3 videos and 2 shorts in
\* 2024-05.
C21_Witness ==
    /\ pc[Http] = "respond"
    /\ historyFile.doc = ExampleLedger
    /\ get_monthly_breakdown(historyFile.doc) = [m \in {"2024-05"} |-> [videos |-> 3, shorts |-> 2]]

\* ------------------------------------------------- the subscriber count
\* A text is a sequence of characters.  ASCII characters stand for
\* themselves, the others are named by their code point:
\*   U+B9CC man (x 10^4)   U+CC9C cheon (x 10^3)   U+C5B5 eok (x 10^8)
\*   U+BA85 myeong          U+AD6C U+B3C5 U+C790 "gudokja" (subscribers)
\*   U+AC00 U+B098 U+B2E4 ga, na, da      U+3042 hiragana a
\*   U+00C9 U+00E9 E and e with acute accent
ord ==
    [c \in {"0"} |-> 48] @@ [c \in {"1"} |-> 49] @@ [c \in {"2"} |-> 50] @@
    [c \in {"3"} |-> 51] @@ [c \in {"4"} |-> 52] @@ [c \in {"5"} |-> 53] @@
    [c \in {"6"} |-> 54] @@ [c \in {"7"} |-> 55] @@ [c \in {"8"} |-> 56] @@
    [c \in {"9"} |-> 57] @@ [c \in {" "} |-> 32] @@ [c \in {"#"} |-> 35] @@
    [c \in {","} |-> 44] @@ [c \in {"."} |-> 46] @@
    [c \in {"A"} |-> 65] @@ [c \in {"B"} |-> 66] @@ [c \in {"K"} |-> 75] @@
    [c \in {"M"} |-> 77] @@ [c \in {"Z"} |-> 90] @@
    [c \in {"a"} |-> 97] @@ [c \in {"b"} |-> 98] @@ [c \in {"c"} |-> 99] @@
    [c \in {"e"} |-> 101] @@ [c \in {"k"} |-> 107] @@ [c \in {"l"} |-> 108] @@
    [c \in {"m"} |-> 109] @@ [c \in {"p"} |-> 112] @@ [c \in {"r"} |-> 114] @@
    [c \in {"z"} |-> 122] @@
    [c \in {"U+00C9"} |-> 201] @@ [c \in {"U+00E9"} |-> 233] @@
    [c \in {"U+3042"} |-> 12354] @@ [c \in {"U+AC00"} |-> 44032] @@
    [c \in {"U+AD6C"} |-> 44396] @@ [c \in {"U+B098"} |-> 45208] @@
    [c \in {"U+B2E4"} |-> 45796] @@ [c \in {"U+B3C5"} |-> 46021] @@
    [c \in {"U+B9CC"} |-> 47564] @@ [c \in {"U+BA85"} |-> 47749] @@
    [c \in {"U+C5B5"} |-> 50613] @@ [c \in {"U+C790"} |-> 51088] @@
    [c \in {"U+CC9C"} |-> 52380]

IsDigit(c) == ord[c] \in 48..57
\* str.upper() and str.lower() of one character of the alphabet
upper(c) ==
    IF ord[c] \in (97..122) \cup {233} THEN CHOOSE u \in DOMAIN ord : ord[u] = ord[c] - 32
    ELSE c
lower(c) ==
    IF ord[c] \in (65..90) \cup {201} THEN CHOOSE l \in DOMAIN ord : ord[l] = ord[c] + 32
    ELSE c

\* str.strip()
RECURSIVE strip_text(_)
strip_text(text) ==
    IF text = <<>> THEN text
    ELSE IF Head(text) = " " THEN strip_text(Tail(text))
    ELSE IF text[Len(text)] = " " THEN strip_text(SubSeq(text, 1, Len(text) - 1))
    ELSE text

\* Natural numbers of any size, as sequences of 15-bit limbs, lowest limb
\* first.
RECURSIVE limbs_of(_)
limbs_of(n) == IF n = 0 THEN <<>> ELSE <<n % 32768>> \o limbs_of(n \div 32768)
RECURSIVE int_of(_)
int_of(l) == IF l = <<>> THEN 0 ELSE l[1] + 32768 * int_of(Tail(l))
\* l * m + carry, for m up to 10^4
RECURSIVE mul_small(_, _, _)
mul_small(l, m, carry) ==
    IF l = <<>> THEN limbs_of(carry)
    ELSE LET t == l[1] * m + carry
         IN  <<t % 32768>> \o mul_small(Tail(l), m, t \div 32768)
\* quotient and remainder of l by d, for d up to 2^15
RECURSIVE div_small(_, _)
div_small(l, d) ==
    IF l = <<>> THEN [q |-> <<>>, r |-> 0]
    ELSE LET hi == div_small(Tail(l), d)
             t == 32768 * hi.r + l[1]
         IN  [q |-> <<t \div d>> \o hi.q, r |-> t % d]
RECURSIVE normalize(_)
normalize(l) ==
    IF l # <<>> /\ l[Len(l)] = 0 THEN normalize(SubSeq(l, 1, Len(l) - 1)) ELSE l
RECURSIVE digits_to_limbs(_, _)
digits_to_limbs(digits, acc) ==
    IF digits = <<>> THEN acc
    ELSE digits_to_limbs(Tail(digits), mul_small(acc, 10, ord[Head(digits)] - 48))
RECURSIVE Pow10(_)
Pow10(k) == IF k = 0 THEN 1 ELSE 10 * Pow10(k - 1)
RECURSIVE Pow2(_)
Pow2(k) == IF k = 0 THEN 1 ELSE 2 * Pow2(k - 1)
\* the number of bits of a normalized l, and its i-th bit (1 is the lowest)
bit_length(l) ==
    IF l = <<>> THEN 0
    ELSE 15 * (Len(l) - 1)
           + (CHOOSE w \in 1..15 : Pow2(w - 1) <= l[Len(l)] /\ l[Len(l)] < Pow2(w))
bit(l, i) == (l[((i - 1) \div 15) + 1] \div Pow2((i - 1) % 15)) % 2
\* l * 2^k and floor(l / 2^k)
shift_left(l, k) == [i \in 1..(k \div 15) |-> 0] \o mul_small(l, Pow2(k % 15), 0)
shift_right(l, k) ==
    IF k \div 15 >= Len(l) THEN <<>>
    ELSE normalize(div_small(SubSeq(l, (k \div 15) + 1, Len(l)), Pow2(k % 15)).q)

\* An IEEE 754 double: mant * 2^exp with a mantissa of at most 53
\* significant bits, or infinity.  round_double rounds the number
\* l * 2^exp (plus a nonzero fraction of its last bit when `sticky`) to the
\* nearest double, ties to even.
round_double(l, exp, sticky) ==
    LET t == bit_length(l) - 53
        q == shift_right(l, t)
        up == /\ bit(l, t) = 1
              /\ \/ sticky
                 \/ \E i \in 1..(t - 1) : bit(l, i) = 1
                 \/ q[1] % 2 = 1
        r == IF t <= 0 THEN [mant |-> l, exp |-> exp]
             ELSE [mant |-> IF up THEN mul_small(q, 1, 1) ELSE q, exp |-> exp + t]
    IN  [inf |-> bit_length(r.mant) + r.exp > 1024, mant |-> r.mant, exp |-> r.exp]

\* float(num_str) of a string with one "." (fetcher.py 43): the double
\* nearest to digits / 10^places; infinity from 310 integer digits on.
float_of(digits, places) ==
    LET n == normalize(digits_to_limbs(digits, <<>>))
        qr == div_small(<<0, 0, 0, 0, 0>> \o n, Pow10(places))
    IN  IF Len(digits) - places > 309 /\ Head(digits) # "0"
        THEN [inf |-> TRUE, mant |-> <<>>, exp |-> 0]
        ELSE IF n = <<>> THEN [inf |-> FALSE, mant |-> <<>>, exp |-> 0]
        ELSE round_double(normalize(qr.q), 0 - 75, qr.r # 0)

\* num * multiplier for a float: the exact product, rounded
float_times(x, m) ==
    LET m1 == IF m > 10000 THEN 10000 ELSE m
    IN  IF x.inf \/ x.mant = <<>> THEN x
        ELSE round_double(normalize(mul_small(mul_small(x.mant, m1, 0), m \div m1, 0)),
                          x.exp, FALSE)
\* int(x) of a finite float: the fraction is cut off
int_of_float(x) ==
    IF x.exp >= 0 THEN int_of(shift_left(x.mant, x.exp))
    ELSE int_of(shift_right(x.mant, 0 - x.exp))

\* The outcome of a call: a returned value, or an exception that leaves
\* the function.
Returns(v) == [raised |-> FALSE, value |-> v]
Raises == [raised |-> TRUE, value |-> 0]

\* re.search(r"([\d.,]+)\s*(unit)?", text, re.IGNORECASE), fetcher.py 38:
\* the leftmost longest run of digits, dots and commas, and the unit
\* character after it, if any.
IsNumeric(c) == IsDigit(c) \/ c \in {".", ","}
run_start(text) ==
    IF \E i \in 1..Len(text) : IsNumeric(text[i])
    THEN CHOOSE i \in 1..Len(text) :
            IsNumeric(text[i]) /\ \A j \in 1..(i - 1) : ~IsNumeric(text[j])
    ELSE 0
run_end(text, from) ==
    CHOOSE j \in from..Len(text) :
        /\ \A i \in from..j : IsNumeric(text[i])
        /\ j = Len(text) \/ ~IsNumeric(text[j + 1])
after_spaces(text, from) ==
    CHOOSE j \in from..(Len(text) + 1) :
        /\ \A i \in from..(j - 1) : text[i] = " "
        /\ j = Len(text) + 1 \/ text[j] # " "
UnitChars == {"U+B9CC", "U+CC9C", "U+C5B5", "K", "k", "M", "m"}
unit_at(text, at) ==
    IF at <= Len(text) /\ text[at] \in UnitChars THEN <<text[at]>> ELSE <<>>

\* fetcher.py 47-57: the factor of the unit
multiplier(unit) ==
    CASE unit = <<"U+B9CC">> -> 10000
      [] unit = <<"U+CC9C">> -> 1000
      [] unit = <<"U+C5B5">> -> 100000000
      [] unit = <<"K">> -> 1000
      [] unit = <<"M">> -> 1000000
      [] OTHER -> 1

\* The groups of the match: group1 is empty when nothing matches.
match_groups(text) ==
    LET from == run_start(text)
        to == run_end(text, from)
    IN  IF from = 0 THEN [group1 |-> <<>>, group2 |-> <<>>]
        ELSE [group1 |-> SubSeq(text, from, to),
              group2 |-> unit_at(text, after_spaces(text, to + 1))]

\* fetcher.py 29-57
_parse_subscriber_count(text) ==
    LET match == match_groups(strip_text(text))
        num_str == SelectSeq(match.group1, LAMBDA c : c # ",")
        dots == { i \in 1..Len(num_str) : num_str[i] = "." }
        dot == CHOOSE i \in dots : TRUE
        digits == SelectSeq(num_str, IsDigit)
        unit == IF match.group2 = <<>> THEN <<>> ELSE <<upper(match.group2[1])>>
        m == multiplier(unit)
        as_float == float_times(float_of(digits, Len(num_str) - dot), m)
    IN  IF text = <<>> \/ match.group1 = <<>> THEN Returns(0)
        ELSE IF dots # {}
             THEN IF Cardinality(dots) > 1 \/ digits = <<>> THEN Returns(0)
                  ELSE IF as_float.inf THEN Raises
                  ELSE Returns(int_of_float(as_float))
        ELSE IF digits = <<>> THEN Returns(0)
        ELSE Returns(int_of(mul_small(mul_small(digits_to_limbs(digits, <<>>),
                                IF m > 10000 THEN 10000 ELSE 1, 0),
                            IF m > 10000 THEN m \div 10000 ELSE m, 0)))

\* ------------------------------------------------------ the roster sort
\* Python's order of strings: by code point, a proper prefix first.
RECURSIVE str_less(_, _)
str_less(a, b) ==
    IF b = <<>> THEN FALSE
    ELSE IF a = <<>> THEN TRUE
    ELSE IF Head(a) # Head(b) THEN ord[Head(a)] < ord[Head(b)]
    ELSE str_less(Tail(a), Tail(b))

_channel_sort_key_CaseSensitive(c) ==
    LET name == c.channel_name
        o == ord[name[1]]
    IN  IF name = <<>> THEN <<2, name>>
        ELSE IF o \in 44032..55203 \/ o \in 12592..12687 \/ o \in 4352..4607
             THEN <<0, name>>
        ELSE IF o \in 65..90 \/ o \in 97..122 THEN <<1, name>>
        ELSE <<2, name>>

\* fetcher.py 507-519
_channel_sort_key(c) ==
    LET name == c.channel_name
        o == ord[name[1]]
    IN  IF name = <<>> THEN <<2, name>>
        ELSE IF o \in 44032..55203 \/ o \in 12592..12687 \/ o \in 4352..4607
             THEN <<0, name>>
        ELSE IF o \in 65..90 \/ o \in 97..122
             THEN <<1, [i \in 1..Len(name) |-> lower(name[i])]>>
        ELSE <<2, name>>

\* the order of the key tuples
key_less(k1, k2) == k1[1] < k2[1] \/ (k1[1] = k2[1] /\ str_less(k1[2], k2[2]))

\* list.sort(key=...), fetcher.py 521: a stable sort; each channel goes
\* before the first channel of a greater key.
insert_sorted(sorted, c) ==
    LET greater == { i \in 1..Len(sorted) :
                       key_less(_channel_sort_key(c), _channel_sort_key(sorted[i])) }
        at == IF greater = {} THEN Len(sorted) + 1
              ELSE CHOOSE i \in greater : \A j \in greater : i <= j
    IN  SubSeq(sorted, 1, at - 1) \o <<c>> \o SubSeq(sorted, at, Len(sorted))
RECURSIVE sort_channels(_, _)
sort_channels(channels, sorted) ==
    IF channels = <<>> THEN sorted
    ELSE sort_channels(Tail(channels), insert_sorted(sorted, Head(channels)))

\* A node of the channel shelf: a channelRenderer with its title and its
\* videoCountText (an empty title stands for a missing one), or a node of
\* another kind.
ChannelNode(title, videoCountText) ==
    [key |-> "channelRenderer", title |-> title, videoCountText |-> videoCountText]
OtherNode == [key |-> "continuationItemRenderer", title |-> <<>>, videoCountText |-> <<>>]

\* fetcher.py 451-505: the channels of the nodes, in the order of the shelf
channels_of(channel_list) ==
    LET kept == SelectSeq(channel_list, LAMBDA item :
                    item.key = "channelRenderer" /\ strip_text(item.title) # <<>>)
    IN  [i \in 1..Len(kept) |->
            [channel_name |-> strip_text(kept[i].title),
             subscriber_count_text |-> kept[i].videoCountText,
             subscriber_count |-> _parse_subscriber_count(kept[i].videoCountText)]]

\* fetcher.py 446-524: fetch_subscriptions() from the channel shelf on
parse_subscriptions(channel_list) ==
    LET channels == channels_of(channel_list)
    IN  IF \E i \in 1..Len(channels) : channels[i].subscriber_count.raised THEN Raises
        ELSE Returns(sort_channels(
                 [i \in 1..Len(channels) |->
                     [channels[i] EXCEPT !.subscriber_count = @.value]], <<>>))

\* ---- the subscription page is parsed
Gudokja == <<"U+AD6C", "U+B3C5", "U+C790">>
\* Subscriber texts: the examples, one- and two-place decimals with every
\* unit, grouped and plain integers, texts without a number, texts whose
\* run is no number, and a number of 310 digits.
CountTexts ==
    { Gudokja \o <<" ", "1", "7", "U+B9CC", "U+BA85">>,
      <<"1", ".", "2", "3", "M">>, <<"5", "0", "0", "U+CC9C">>, <<>>, <<"a", "b", "c">>,
      <<"1", ",", "2", "3", "4">>, <<"2", "1", "U+C5B5">>, <<"5", " ", "k">>,
      <<".">>, <<",">>, <<"1", ".", "2", ".", "3">>, <<"M", ".", " ", "5", "K">>,
      <<" ", "3", "m", " ">>, <<"1", ".", "0", "0", "5", "M">>,
      [i \in 1..310 |-> "9"] \o <<".">> }
      \cup { <<a, ".", b>> \o u : a \in DigitChars, b \in DigitChars,
                u \in { <<c>> : c \in UnitChars } \cup { <<>> } }
      \cup { <<a, ".", b, c, u>> : a \in {"0", "1"}, b \in DigitChars, c \in DigitChars,
                u \in {"U+B9CC", "M"} }

RosterNames3 ==
    { <<"Z", "e", "b", "r", "a">>, <<"U+AC00", "U+B098", "U+B2E4">>, <<"1", "2", "3">>,
      <<"a", "p", "p", "l", "e">>, <<"A", "p", "p", "l", "e">>, <<"U+AC00", "U+B098">>,
      <<"#", "a">>, <<"U+3042">>, <<"U+00C9", "a">>, <<"B">>, <<"a", "U+00C9">>, <<"b">> }

ExampleRoster ==
    << <<"Z", "e", "b", "r", "a">>, <<"U+AC00", "U+B098", "U+B2E4">>, <<"1", "2", "3">>,
       <<"a", "p", "p", "l", "e">> >>
ShelfPages ==
    { <<ChannelNode(<<"A">>, t)>> : t \in CountTexts }
      \cup { [i \in 1..4 |-> ChannelNode(ExampleRoster[i], <<>>)] }
      \cup { <<ChannelNode(a, <<>>), ChannelNode(b, <<>>), ChannelNode(c, <<>>)>> :
               a \in RosterNames3, b \in RosterNames3, c \in RosterNames3 }
      \cup { <<ChannelNode(<<"Z", "e", "b", "r", "a">>, <<"1", "K">>),
               ChannelNode(<<"U+AC00", "U+B098", "U+B2E4">>, <<"2", "K">>),
               OtherNode, ChannelNode(<<" ">>, <<"9">>),
               ChannelNode(<<"1", "2", "3">>, <<"3", "K">>),
               ChannelNode(<<" ", "a", "p", "p", "l", "e", " ">>, <<"4", "K">>)>> }

ShelfEnv ==
    Env(FALSE, { Failure("history", "error") },
        { Page("subscriptions", p) : p \in ShelfPages }, {}, {}, 0, 0, FALSE)

InitShelf == InitIn(ShelfEnv)

\* fetch_subscriptions() is called (main.py 212); the page arrives with a
\* channel shelf.
PollFetchShelf ==
    /\ pc[Poll] = "loop_top"
    /\ \E r \in env.subscriptions : inflight' = [inflight EXCEPT ![Poll] = r]
    /\ pc' = [pc EXCEPT ![Poll] = "fetch_subscriptions"]
    /\ UNCHANGED <<clockVars, fileVars, lockVars, windowVars, stampVars,
                   cacheVars, ovc, pollLocals, httpLocals, faults, env>>

\* fetcher.py 446-524: the roster is built, sorted and stored; an exception
\* leaves fetch_subscriptions() and is caught in fetch_loop (main.py 243).
PollParseSubscriptions ==
    /\ pc[Poll] = "fetch_subscriptions"
    /\ LET out == parse_subscriptions(inflight[Poll].payload)
       IN  IF out.raised
           THEN /\ pc' = [pc EXCEPT ![Poll] = AfterException]
                /\ UNCHANGED subscriptions_data
           ELSE /\ pc' = [pc EXCEPT ![Poll] = "parsed"]
                /\ subscriptions_data' = SomeData(out.value)
    /\ UNCHANGED <<clockVars, fileVars, lockVars, windowVars, stampVars,
                   history_data, recommended_data, inflight, ovc, pollLocals,
                   httpLocals, faults, env>>

NextShelf ==
    \/ PollFetchShelf
    \/ PollParseSubscriptions
    \/ PollExcept

SpecShelf == InitShelf /\ [][NextShelf]_vars

\* The number the text stands for: the digits of the first numeric run
\* as a decimal number, times the factor of the unit, cut to an integer;
\* 0 without a run or when the run is no number.
DecimalTimes(digits, places, factor) ==
    LET n == int_of(digits_to_limbs(digits, <<>>))
    IN  IF factor >= Pow10(places) THEN n * (factor \div Pow10(places))
        ELSE (n * factor) \div Pow10(places)
FactorOf(unit) ==
    IF unit = <<>> THEN 1
    ELSE IF unit[1] = "U+B9CC" THEN 10000
    ELSE IF unit[1] = "U+C5B5" THEN 100000000
    ELSE IF unit[1] \in {"M", "m"} THEN 1000000
    ELSE 1000
ExpectedCount(text) ==
    LET match == match_groups(strip_text(text))
        num_str == SelectSeq(match.group1, LAMBDA c : c # ",")
        digits == SelectSeq(num_str, IsDigit)
        dots == { i \in 1..Len(num_str) : num_str[i] = "." }
    IN  IF digits = <<>> \/ Cardinality(dots) > 1 THEN 0
        ELSE DecimalTimes(digits,
                          IF dots = {} THEN 0 ELSE Len(num_str) - (CHOOSE i \in dots : TRUE),
                          FactorOf(match.group2))

\* C22: the subscriber-count normalizer never fails its caller, and the
\* count of every channel of the roster is the first numeric run of its
\* text times the factor of the unit after it, 0 without a usable run.
C22_NormalizerExact ==
    /\ pc[Poll] # AfterException
    /\ pc[Poll] = "parsed" =>
         \A i \in 1..Len(subscriptions_data.items) :
            subscriptions_data.items[i].subscriber_count
               = ExpectedCount(subscriptions_data.items[i].subscriber_count_text)

\* What holds of the counts: for a text without a decimal point the count
\* is the number the text stands for.
IntegerCountsExact ==
    pc[Poll] = "parsed" =>
       \A i \in 1..Len(subscriptions_data.items) :
          LET c == subscriptions_data.items[i]
          IN  (\A j \in 1..Len(c.subscriber_count_text) : c.subscriber_count_text[j] # ".")
                 => c.subscriber_count = ExpectedCount(c.subscriber_count_text)

\* The three buckets of the claim, by the first character of the name.
HangulChars == { c \in DOMAIN ord : ord[c] >= 44032 /\ ord[c] <= 55203 }
LatinLetters == {"A", "B", "K", "M", "Z", "a", "b", "c", "e", "k", "l", "m", "p", "r", "z"}
BucketOf(name) ==
    IF name # <<>> /\ name[1] \in HangulChars THEN 0
    ELSE IF name # <<>> /\ name[1] \in LatinLetters THEN 1
    ELSE 2
\* a comes before b in lexicographic order: they differ first at a place
\* where a ends or has the smaller character
LexBefore(a, b) ==
    \E k \in 1..Len(b) :
        /\ k <= Len(a) + 1
        /\ \A i \in 1..(k - 1) : a[i] = b[i]
        /\ k = Len(a) + 1 \/ ord[a[k]] < ord[b[k]]
Lowered(name) == [i \in 1..Len(name) |-> lower(name[i])]
NamesOf(channels) == [i \in 1..Len(channels) |-> channels[i].channel_name]
TimesIn(name, names) == Cardinality({ i \in 1..Len(names) : names[i] = name })

\* C23: the roster is sorted by a three-bucket key: names starting with a
\* Hangul character, then names starting with a Latin letter compared
\* case-insensitively, then all other names, each bucket in lexicographic
\* order; and it holds the channels of the shelf, each as often.
C23_RosterSorted ==
    pc[Poll] = "parsed" =>
       LET roster == NamesOf(subscriptions_data.items)
           shelf == NamesOf(channels_of(inflight[Poll].payload))
       IN  /\ \A n \in { shelf[i] : i \in 1..Len(shelf) } \cup { roster[i] : i \in 1..Len(roster) } :
                 TimesIn(n, roster) = TimesIn(n, shelf)
           /\ \A i \in 1..Len(roster) : \A j \in (i + 1)..Len(roster) :
                 /\ BucketOf(roster[i]) <= BucketOf(roster[j])
                 /\ BucketOf(roster[i]) = BucketOf(roster[j]) =>
                       IF BucketOf(roster[i]) = 1
                       THEN ~LexBefore(Lowered(roster[j]), Lowered(roster[i]))
                       ELSE ~LexBefore(roster[j], roster[i])
           /\ shelf = ExampleRoster =>
                 roster = <<ExampleRoster[2], ExampleRoster[4], ExampleRoster[1], ExampleRoster[3]>>

\* The shelf of the example has been sorted.
C23_Witness ==
    /\ pc[Poll] = "parsed"
    /\ NamesOf(channels_of(inflight[Poll].payload)) = ExampleRoster
    /\ NamesOf(subscriptions_data.items)
         = << <<"U+AC00", "U+B098", "U+B2E4">>, <<"a", "p", "p", "l", "e">>,
              <<"Z", "e", "b", "r", "a">>, <<"1", "2", "3">> >>

\* ------------------------------------------------- the manual refresh
\* Runs long enough for a cooldown to end: the server answers refresh
\* calls while the clock advances, also while a fetch is under way.
RefreshMaxElapsed == 12
RefreshEnv ==
    Env(TRUE, { Failure("history", "error") }, { Failure("subscriptions", "error") },
        Responses("recommended", RecommendedLists), {}, 0, RefreshMaxElapsed, TRUE)

InitRefresh == InitIn(RefreshEnv)

NextRefresh ==
    \/ Tick
    \/ RefreshStart
    \/ RefreshEnd
    \/ HttpDone

SpecRefresh == InitRefresh /\ [][NextRefresh]_vars

\* C24: a manual refresh that runs a fetch records the time of its call;
\* a refresh call less than 600 seconds after the recorded time is
\* answered with the cooldown error, runs no fetch and leaves the recorded
\* time unchanged, and a call that runs a fetch comes at least 600 seconds
\* after it.
C24_RefreshCooldown ==
    [][ /\ (pc[Http] = "fetch_rec" /\ pc'[Http] = "respond") =>
             /\ _last_manual_refresh_recommended' = httpNow
             /\ httpNow <= now
        /\ (pc[Http] = "idle" /\ pc'[Http] # "idle"
              /\ now - _last_manual_refresh_recommended < REFRESH_COOLDOWN_SEC) =>
             /\ pc'[Http] = "respond"
             /\ httpResp' = "429 cooldown"
             /\ inflight' = inflight
             /\ recommended_data' = recommended_data
             /\ _last_manual_refresh_recommended' = _last_manual_refresh_recommended
        /\ (pc[Http] = "idle" /\ pc'[Http] = "fetch_rec") =>
             /\ httpNow' = now
             /\ httpNow' - _last_manual_refresh_recommended >= REFRESH_COOLDOWN_SEC
      ]_vars

\* A refresh call is answered with the cooldown error after an earlier
\* call ran a fetch.
C24_Witness ==
    /\ httpResp = "429 cooldown"
    /\ _last_manual_refresh_recommended >= StartTime
    /\ now - _last_manual_refresh_recommended = REFRESH_COOLDOWN_SEC - 1

\* A second refresh runs a fetch once the cooldown is over.
SecondRefreshRuns ==
    /\ pc[Http] = "fetch_rec"
    /\ _last_manual_refresh_recommended >= StartTime

\* ------------------------------------------------- the interval gates
\* Polling cycles over several intervals, with the recommendation option
\* on or off, fetches that succeed or fail, and a manual refresh.  No
\* video is watched.
GateMaxElapsed == 5
GateEnv(fetch_recommended) ==
    Env(fetch_recommended, { Failure("history", "error") },
        { Page("subscriptions", <<[channel_name |-> "A"]>>), Failure("subscriptions", "error") },
        { Page("recommended", <<VideoRec("a")>>), Failure("recommended", "error") },
        {}, 0, GateMaxElapsed, FALSE)

InitGate == InitIn(GateEnv(TRUE)) \/ InitIn(GateEnv(FALSE))

NextGate ==
    \/ Tick
    \/ PollFetchHistoryBegin
    \/ PollFetchHistoryEnd
    \/ PollFetchSubsEnd
    \/ PollSubsLock
    \/ PollSubsUpdate
    \/ PollFetchRecEnd
    \/ PollProcess
    \/ RefreshStart
    \/ RefreshEnd
    \/ HttpDone

SpecGate == InitGate /\ [][NextGate]_vars

\* C25: in each polling cycle the subscription fetch is run if and only if
\* at least its interval lies between the start of the cycle and the time
\* recorded at the end of the last subscription fetch of start-up or of a
\* cycle, whatever that fetch returned; the recommendation fetch likewise,
\* counted from the start of the cycle that last ran it, and only with the
\* option on.  Nothing else records these times.
C25_GatesFollowLastFetch ==
    [][ /\ (pc[Poll] = "fetch_history" /\ pc'[Poll] # "fetch_history") =>
             (pc'[Poll] = "fetch_subs"
                <=> pollNow - _last_subscriptions_fetch >= SubscriptionsInterval)
        /\ (pc[Poll] \in {"fetch_history", "fetch_subs", "subs_cs"}
              /\ pc'[Poll] \in {"fetch_rec", "process"}) =>
             (pc'[Poll] = "fetch_rec"
                <=> /\ env.fetch_recommended
                    /\ pollNow - _last_recommended_fetch >= RecommendedInterval)
        /\ (pc[Poll] = "fetch_subs" /\ pc'[Poll] # "fetch_subs") =>
             _last_subscriptions_fetch' = now
        /\ (pc[Poll] = "fetch_rec" /\ pc'[Poll] # "fetch_rec") =>
             _last_recommended_fetch' = pollNow
        /\ _last_subscriptions_fetch' # _last_subscriptions_fetch => pc[Poll] = "fetch_subs"
        /\ _last_recommended_fetch' # _last_recommended_fetch => pc[Poll] = "fetch_rec"
      ]_vars

\* A cycle skips the subscription fetch one tick after a cycle whose
\* subscription fetch failed.
C25_Witness ==
    /\ pc[Poll] \in {"process", "fetch_rec"}
    /\ subscriptions_data.isNone
    /\ _last_subscriptions_fetch > StartTime
    /\ pollNow > _last_subscriptions_fetch
    /\ pollNow - _last_subscriptions_fetch < SubscriptionsInterval

\* The claim as stated, counted from the last successful fetch.  A cycle
\* ran a subscription fetch that failed: the interval had elapsed since
\* the last success when that cycle started, and no fetch has succeeded
\* since, so every later cycle runs the fetch.
C25_SinceLastSuccess ==
    [][ (/\ pc[Poll] = "fetch_history" /\ pc'[Poll] # "fetch_history"
         /\ subscriptions_data.isNone
         /\ _last_subscriptions_fetch > StartTime) =>
            pc'[Poll] = "fetch_subs" ]_vars

\* ------------------------------------------- the recommendation collector
\* node.get(key, {}) of a dict, and the elements of a list
get_node(node, key) ==
    IF node.type = "dict" /\ HasKey(node, key) THEN ValueOf(node, key)
    ELSE DictNode("", <<>>)
elements(node) == IF node.type = "list" THEN node.elems ELSE <<>>

\* fetcher.py 615-625
_extract_video_from_grid_item(item) ==
    LET wrapper == get_node(item, "richItemRenderer")
        content == IF HasKey(wrapper, "content") THEN ValueOf(wrapper, "content") ELSE item
    IN  IF /\ HasKey(content, "lockupViewModel")
           /\ ValueOf(content, "lockupViewModel").contentType = "LOCKUP_CONTENT_TYPE_VIDEO"
        THEN _extract_lockup_info(ValueOf(content, "lockupViewModel"))
        ELSE IF HasKey(content, "videoRenderer")
        THEN _extract_video_renderer_info(ValueOf(content, "videoRenderer"))
        ELSE <<>>

\* fetcher.py 582-587 and 597-601: for item in items, until the list is full
RECURSIVE collect_grid_items(_, _)
collect_grid_items(items, videos) ==
    IF items = <<>> \/ Len(videos) >= MAX_RECOMMENDED_ITEMS THEN videos
    ELSE collect_grid_items(Tail(items), videos \o _extract_video_from_grid_item(Head(items)))

\* fetcher.py 574-589, path 1: the grid of the first tab that holds a record
RECURSIVE collect_tabs(_, _)
collect_tabs(tabs, videos) ==
    IF tabs = <<>> THEN videos
    ELSE LET grid == get_node(get_node(get_node(Head(tabs), "tabRenderer"), "content"),
                              "richGridRenderer")
             collected == collect_grid_items(elements(get_node(grid, "contents")), videos)
         IN  IF collected # <<>> THEN collected ELSE collect_tabs(Tail(tabs), collected)

\* fetcher.py 593-603, path 2: the item lists of the sections
RECURSIVE collect_sections(_, _)
collect_sections(sections, videos) ==
    IF sections = <<>> \/ Len(videos) >= MAX_RECOMMENDED_ITEMS THEN videos
    ELSE collect_sections(Tail(sections),
             collect_grid_items(
                 elements(get_node(get_node(Head(sections), "itemSectionRenderer"), "contents")),
                 videos))

\* `videos` when path 3 is reached or the function has returned
structured_paths(data) ==
    LET contents == get_node(data, "contents")
    IN  collect_sections(
            elements(get_node(get_node(contents, "sectionListRenderer"), "contents")),
            collect_tabs(
                elements(get_node(get_node(contents, "twoColumnBrowseResultsRenderer"), "tabs")),
                <<>>))

locator_wanted_WhenEmpty(videos) == videos = <<>>

\* fetcher.py 606: if len(videos) < MAX_RECOMMENDED_ITEMS
locator_wanted(videos) == Len(videos) < MAX_RECOMMENDED_ITEMS

\* fetcher.py 569-613: the returned list, and the names of the nodes the
\* recursive search has looked at
_parse_recommended_from_data(data) ==
    LET videos == structured_paths(data)
        search == _find_videos_in_dict(data, MAX_RECOMMENDED_ITEMS)
    IN  IF locator_wanted(videos)
        THEN [videos |-> IF search.videos # <<>> THEN search.videos ELSE videos,
              visited |-> search.visited]
        ELSE [videos |-> videos, visited |-> {}]

\* Home pages: a grid of one tab (after an empty tab), a section list, and
\* a header beside them, each with none or several items of several kinds.
Wrapped(tag) ==
    DictNode(tag \o "w", <<Entry("richItemRenderer",
                                 DictNode(tag \o "v", <<Entry("content", Card(tag))>>))>>)
NoIdCard(tag) ==
    DictNode(tag, <<Entry("lockupViewModel", LockupValue("LOCKUP_CONTENT_TYPE_VIDEO", ""))>>)
GridTab(name, items) ==
    DictNode(name, <<Entry("tabRenderer", DictNode(name \o "r", <<Entry("content",
        DictNode(name \o "c", <<Entry("richGridRenderer",
            DictNode(name \o "g", <<Entry("contents", ListNode(name \o "i", items))>>))>>))>>))>>)
HomePage(gridItems, sectionItems, header) ==
    DictNode("r",
      <<Entry("contents", DictNode("c",
          <<Entry("twoColumnBrowseResultsRenderer", DictNode("two",
                <<Entry("tabs", ListNode("tabs", <<GridTab("t1", <<>>), GridTab("t2", gridItems)>>))>>)),
            Entry("sectionListRenderer", DictNode("sl",
                <<Entry("contents", ListNode("secs",
                    <<DictNode("sec", <<Entry("itemSectionRenderer", DictNode("isr",
                        <<Entry("contents", ListNode("si", sectionItems))>>))>>)>>))>>))>>))>>
      \o header)
GridLists ==
    { <<>>, <<Card("g1")>>, <<Card("g1"), Renderer("g2")>>,
      <<Card("g1"), Card("g2"), Card("g3")>>,
      <<Wrapped("g1"), Card("g2"), Renderer("g3"), Card("g4")>>,
      <<PlaylistCard("g0"), Wrapped("g1")>>, <<NoIdCard("g0")>>,
      <<NoIdCard("g0"), Card("g1"), PlaylistCard("g2"), Card("g3")>> }
SectionLists ==
    { <<>>, <<Card("s1")>>, <<Renderer("s1"), Wrapped("s2")>>,
      <<Card("s1"), Card("s2"), Card("s3")>> }
Headers ==
    { <<>>, <<Entry("header", Card("h"))>>,
      <<Entry("header", ListNode("hl", <<Card("h1"), Renderer("h2"), Card("h3"), Card("h4")>>))>>,
      <<Entry("adSlotRenderer", Card("ad"))>> }
HomePages ==
    { HomePage(g, s, h) : <<g, s, h>> \in GridLists \X SectionLists \X Headers }

HomeEnv ==
    Env(TRUE, { Failure("history", "error") }, { Failure("subscriptions", "error") },
        { Page("recommended", p) : p \in HomePages }, {}, 0, 0, FALSE)

InitHome == InitIn(HomeEnv)

\* fetch_recommended() is called (main.py 221); the home page arrives.
PollFetchHome ==
    /\ pc[Poll] = "loop_top"
    /\ \E r \in env.recommended : inflight' = [inflight EXCEPT ![Poll] = r]
    /\ pc' = [pc EXCEPT ![Poll] = "fetch_recommended"]
    /\ UNCHANGED <<clockVars, fileVars, lockVars, windowVars, stampVars,
                   cacheVars, ovc, pollLocals, httpLocals, faults, env>>

\* fetcher.py 563-567: the document is searched, the list cut and cached.
PollParseRecommended ==
    /\ pc[Poll] = "fetch_recommended"
    /\ recommended_data' =
          SomeData(Take(_parse_recommended_from_data(inflight[Poll].payload).videos,
                        MAX_RECOMMENDED_ITEMS))
    /\ pc' = [pc EXCEPT ![Poll] = "parsed"]
    /\ UNCHANGED <<clockVars, fileVars, lockVars, windowVars, stampVars,
                   history_data, subscriptions_data, inflight, ovc, pollLocals,
                   httpLocals, faults, env>>

NextHome ==
    \/ PollFetchHome
    \/ PollParseRecommended

SpecHome == InitHome /\ [][NextHome]_vars

\* C26: the recursive search is run when, and only when, the two
\* structured paths have yielded fewer than three records; with three
\* records the result is the list of the structured paths, and with fewer
\* it is what the search finds, if it finds anything.
C26_LocatorWhenNotFull ==
    pc[Poll] = "parsed" =>
       LET data == inflight[Poll].payload
           videos == structured_paths(data)
           search == _find_videos_in_dict(data, MAX_RECOMMENDED_ITEMS)
       IN  /\ _parse_recommended_from_data(data).visited # {}
                <=> Len(videos) < MAX_RECOMMENDED_ITEMS
           /\ Len(videos) >= MAX_RECOMMENDED_ITEMS => recommended_data.items = videos
           /\ (Len(videos) < MAX_RECOMMENDED_ITEMS /\ search.videos # <<>>) =>
                 recommended_data.items = search.videos

\* The grid has yielded one record, and the result is the header's card,
\* which only the recursive search reaches.
C26_Witness ==
    /\ pc[Poll] = "parsed"
    /\ structured_paths(inflight[Poll].payload) = <<VideoRec("g1-m")>>
    /\ recommended_data.items = <<VideoRec("h-m")>>

\* The claim as stated: the search is run only when the structured paths
\* have yielded no record.
C26_LocatorOnlyWhenEmpty ==
    pc[Poll] = "parsed" =>
       (_parse_recommended_from_data(inflight[Poll].payload).visited # {}
          => structured_paths(inflight[Poll].payload) = <<>>)

\* C29: every record collected by the grid strategy or the section-list
\* strategy is in the final result, which holds no fewer records than
\* these strategies had collected.
C29_ResultsAccumulate ==
    pc[Poll] = "parsed" =>
       LET videos == structured_paths(inflight[Poll].payload)
       IN  /\ \A i \in 1..Len(videos) :
                 \E j \in 1..Len(recommended_data.items) : recommended_data.items[j] = videos[i]
           /\ Len(recommended_data.items) >= Len(videos)

\* ------------------------------------------- the duration of a modern card
DetailedCard(tag, overlays, metadataRows) ==
    DictNode(tag, <<Entry("lockupViewModel",
        [type |-> "lockup", contentType |-> "LOCKUP_CONTENT_TYPE_VIDEO", id |-> tag \o "-m",
         overlays |-> overlays, metadataRows |-> metadataRows])>>)

LiveStyle == "THUMBNAIL_OVERLAY_BADGE_STYLE_LIVE"
CardOverlays ==
    { BadgeOverlay(<<Badge(TRUE, "LIVE", Missing)>>),
      BadgeOverlay(<<Badge(TRUE, "12:34", LiveStyle)>>),
      BadgeOverlay(<<Badge(TRUE, "12:34", Missing)>>),
      BadgeOverlay(<<Badge(TRUE, "3:45", "THUMBNAIL_OVERLAY_BADGE_STYLE_DEFAULT"),
                     Badge(TRUE, "U+B77C U+C774 U+BE0C", Missing)>>),
      BadgeOverlay(<<Badge(FALSE, "LIVE", LiveStyle), Badge(TRUE, "NEW", Missing)>>),
      BadgeOverlay(<<Badge(TRUE, "123:45", Missing), Badge(TRUE, Missing, Missing)>>),
      BottomOverlay(<<Badge(TRUE, "1:02:03", Missing)>>),
      BottomOverlay(<<Badge(FALSE, "3:45", Missing), Badge(TRUE, "4K", Missing)>>),
      BottomOverlay(<<Badge(TRUE, Missing, Missing)>>),
      TimeStatusOverlay("3:45", FALSE, Missing),
      TimeStatusOverlay(Missing, TRUE, Missing),
      OtherOverlay }
\* The overlay lists of a card: up to two overlays, in either order.
OverlayLists ==
    { <<>> } \cup { <<o>> : o \in CardOverlays }
             \cup { <<o, p>> : <<o, p>> \in { op \in CardOverlays \X CardOverlays : op[1] # op[2] } }
RowLists ==
    { <<>>, <<<<"Ch">>>>, <<<<"Ch", "12:34 / 56:00">>, <<"4K", "1:02:03", "3:45">>>> }
CardPage(overlays, metadataRows) ==
    HomePage(<<DetailedCard("g1", overlays, metadataRows)>>, <<>>, <<>>)
CardPages == { CardPage(o, r) : <<o, r>> \in OverlayLists \X RowLists }

CardEnv ==
    Env(TRUE, { Failure("history", "error") }, { Failure("subscriptions", "error") },
        { Page("recommended", p) : p \in CardPages }, {}, 0, 0, FALSE)

InitCards == InitIn(CardEnv)

SpecCards == InitCards /\ [][NextHome]_vars

\* What the card shows, whatever the order of its lists: its live badges,
\* the timecode-shaped texts of its overlay badges, the texts of its
\* bottom-overlay badges, the duration-shaped texts of its metadata rows.
BadgesOf(overlays, key) ==
    { b \in UNION { { o.badges[i] : i \in 1..Len(o.badges) } :
                      o \in { overlays[j] : j \in { k \in 1..Len(overlays) : overlays[k].key = key } } } :
        b.isBadge }
IsLive(b) == b.badgeStyle = LiveStyle \/ b.text \in LiveTexts
LiveBadges(overlays) ==
    { b \in BadgesOf(overlays, "thumbnailOverlayBadgeViewModel") : IsLive(b) }
TimecodeTexts(overlays) ==
    { b.text : b \in { c \in BadgesOf(overlays, "thumbnailOverlayBadgeViewModel") :
                         ~IsLive(c) /\ c.text \in {"3:45", "12:34"} } }
BottomTexts(overlays) ==
    { b.text : b \in { c \in BadgesOf(overlays, "thumbnailBottomOverlayViewModel") :
                         c.text # Missing } }
RowDurations(metadataRows) ==
    { t \in UNION { { metadataRows[i][j] : j \in 1..Len(metadataRows[i]) } :
                      i \in 1..Len(metadataRows) } : t \in {"1:02:03", "3:45"} }
\* Cards whose overlays are of the kinds the precedence is stated for.
BadgesOnly(overlays) ==
    \A i \in 1..Len(overlays) : overlays[i].key # "thumbnailOverlayTimeStatusRenderer"

\* C27: for every order of the overlays and of their badges, the duration of
\* a modern card is LIVE when it has a live badge, else a timecode-shaped
\* overlay badge text when it has one, else a bottom-overlay badge text
\* when it has one, and a duration found among the metadata rows only when
\* it has none of these.
C27_DurationPrecedence ==
    pc[Poll] = "parsed" =>
       \A o \in OverlayLists, r \in RowLists :
          (inflight[Poll].payload = CardPage(o, r) /\ BadgesOnly(o)) =>
             LET duration == recommended_data.items[1].duration
             IN  IF LiveBadges(o) # {} THEN duration = "LIVE"
                 ELSE IF TimecodeTexts(o) # {} THEN duration \in TimecodeTexts(o)
                 ELSE IF BottomTexts(o) # {} THEN duration \in BottomTexts(o)
                 ELSE IF RowDurations(r) # {} THEN duration \in RowDurations(r)
                 ELSE duration = NA

\* What holds of the cards with at most one overlay that gives a duration
\* and one badge in it.
SingleSourceCards ==
    pc[Poll] = "parsed" =>
       \A o \in OverlayLists, r \in RowLists :
          (/\ inflight[Poll].payload = CardPage(o, r)
           /\ BadgesOnly(o)
           /\ Cardinality(LiveBadges(o)) + Cardinality(TimecodeTexts(o))
                 + Cardinality(BottomTexts(o)) <= 1) =>
             LET duration == recommended_data.items[1].duration
             IN  IF LiveBadges(o) # {} THEN duration = "LIVE"
                 ELSE IF TimecodeTexts(o) # {} THEN duration \in TimecodeTexts(o)
                 ELSE IF BottomTexts(o) # {} THEN duration \in BottomTexts(o)
                 ELSE IF RowDurations(r) # {} THEN duration \in RowDurations(r)
                 ELSE duration = NA

\* ------------------------------------------- an entry is recorded
\* Push requests for two new videos and for a video most ledgers hold.
RecordBodies == { PlainBody("g"), PlainBody("h"), PlainBody("a") }
RecordEnv ==
    Env(FALSE, { Failure("history", "error") }, { Failure("subscriptions", "error") },
        {}, RecordBodies, 0, 0, FALSE)

\* The add-on starts on the last of the days of the ledger it finds.
InitRecord ==
    /\ env = RecordEnv
    /\ now = StartTime
    /\ today = 2
    /\ historyFile \in { ValidDoc(h) : h \in StatsLedgers }
    /\ subsFile = ValidStore(EmptyStore)
    /\ _history_lock = NoThread
    /\ _subs_lock = NoThread
    /\ _last_seen_video_id = Missing
    /\ _recent_added = NoWindow
    /\ _last_recommended_fetch = 0
    /\ _last_manual_refresh_recommended = 0
    /\ _last_subscriptions_fetch = StartTime
    /\ history_data = <<>>
    /\ subscriptions_data = NoneData
    /\ recommended_data = NoneData
    /\ pc = [t \in Threads |-> IF t = "poll" THEN "loop_top" ELSE "idle"]
    /\ inflight = [t \in Threads |-> NoResp]
    /\ ovc = [t \in Threads |-> NoOvc]
    /\ pollNow = StartTime
    /\ pruneSrc = NoWindow
    /\ httpNow = 0
    /\ httpVid = Missing
    /\ httpResp = "none"
    /\ faults = 0

NextRecord ==
    \/ \E data \in env.bodies : IngestStart(data)
    \/ \E t \in Threads : OvcLock(t)
    \/ \E t \in Threads : OvcSave(t)
    \/ IngestFinish
    \/ HttpDone

SpecRecord == InitRecord /\ [][NextRecord]_vars

\* C28: when on_video_change records an entry, the persisted ledger has the
\* new entry, stamped with the time of recording, at the front of the list
\* of that time's date, followed by the earlier entries of that date in
\* their order (none when the date had no list), and every other date has
\* the list it had.
C28_RecordAtFront ==
    [][ \A t \in Threads :
          (pc[t] = "ovc_cs" /\ pc'[t] = "ovc_ret" /\ ovc'[t].ret) =>
             LET before == historyFile.doc
                 after == historyFile'.doc
                 earlier == IF today \in DOMAIN before THEN before[today] ELSE <<>>
             IN  /\ historyFile'.valid
                 /\ DOMAIN after = DOMAIN before \cup {today}
                 /\ Len(after[today]) = Len(earlier) + 1
                 /\ after[today][1].video_id = ovc[t].video_data.video_id
                 /\ after[today][1].timestamp = [date |-> today, time |-> now]
                 /\ \A i \in 1..Len(earlier) : after[today][i + 1] = earlier[i]
                 /\ \A d \in DOMAIN before \ {today} : after[d] = before[d]
      ]_vars

\* A video was recorded on a date that held two entries, in a ledger with
\* another date: it is first of three.
C28_Witness ==
    /\ pc[Http] = "ovc_ret"
    /\ ovc[Http].ret
    /\ Len(historyFile.doc[2]) = 3
    /\ historyFile.doc[2][1].video_id = "g"
    /\ 0 \in DOMAIN historyFile.doc

\* A video was recorded on a date the ledger had no list for.
BucketCreated ==
    /\ pc[Http] = "ovc_ret"
    /\ ovc[Http].ret
    /\ Len(historyFile.doc[2]) = 1
    /\ 0 \in DOMAIN historyFile.doc
    /\ Len(historyFile.doc[0]) = 5

\* ------------------------------------------- the window and the ledger
\* Ticks the clock may advance in a run without failing reads and writes.
WindowMaxElapsed == 2
\* Both paths, every read and write of the history document succeeds.
WindowEnv ==
    Env(FALSE,
        { Failure("history", "error") }
            \cup { Page("history", p) : p \in HistoryLists },
        { Failure("subscriptions", "error") }, {},
        IngestBodies, 0, WindowMaxElapsed, FALSE)

InitWindow == InitIn(WindowEnv)

SpecWindow == InitWindow /\ [][Next]_vars

\* The ids of the entries of the persisted ledger.
LedgerIds(file) == { e.video_id : e \in EntriesOf(file.doc) }

\* The step in which the push path rejects a submission at the window check
\* (main.py 307-309), and the one in which the polling path does (232-233).
PushWindowReject ==
    /\ pc[Http] = "idle"
    /\ pc'[Http] = "respond"
    /\ httpResp' = "skipped duplicate"
    /\ now - recent_get(_recent_added, httpVid') < duplicate_sec
PollWindowReject ==
    /\ pc[Poll] = "process"
    /\ pc'[Poll] = "prune_store"
    /\ history_data # <<>>
    /\ history_data[1].video_id # _last_seen_video_id
    /\ now - recent_get(_recent_added, history_data[1].video_id) < duplicate_sec

\* C30: when every read and write of the ledger document succeeds, every id
\* the window records is in the ledger; so every submission the window
\* check rejects, on the push path and on the polling path, is one that
\* on_video_change rejects at its uniqueness check, and the step changes
\* what that rejection changes: nothing on the push path, and the last seen
\* id on the polling path.
C30_WindowNeverDecides ==
    [][ /\ DOMAIN _recent_added' \subseteq LedgerIds(historyFile')
        /\ PushWindowReject =>
              /\ httpVid' \in LedgerIds(historyFile)
              /\ UNCHANGED <<historyFile, _recent_added, _last_seen_video_id>>
        /\ PollWindowReject =>
              /\ history_data[1].video_id \in LedgerIds(historyFile)
              /\ _last_seen_video_id' = history_data[1].video_id
              /\ UNCHANGED <<historyFile, _recent_added>>
      ]_vars

\* The push path has rejected, at the window check, an id that the polling
\* path recorded.
C30_Witness ==
    /\ pc[Http] = "respond"
    /\ httpResp = "skipped duplicate"
    /\ httpVid = "a"
    /\ now - recent_get(_recent_added, "a") < duplicate_sec
    /\ "a" \in LedgerIds(historyFile)
    /\ _last_seen_video_id = "a"

\* The polling path has rejected at the window check.
PollRejectedAtWindow ==
    /\ pc[Poll] = "prune_store"
    /\ history_data # <<>>
    /\ now - recent_get(_recent_added, history_data[1].video_id) < duplicate_sec
    /\ _last_seen_video_id = history_data[1].video_id
    /\ ovc[Poll] = NoOvc
    /\ pollNow = now
    /\ httpVid # history_data[1].video_id

====
